---------------------------- MODULE Spec2Model ----------------------------
(***************************************************************************)
(* Vexidus SDK: address codec (address_utils.rs), wallet keypair           *)
(* (wallet.rs) and transaction bundle builder (bundle.rs).                 *)
(*                                                                         *)
(* Strings are sequences of one-character strings, byte arrays are         *)
(* sequences of 0..255, Option<T> is a sequence of length 0 or 1 and       *)
(* Result<T, E> is a record [ok, val, err].                                *)
(***************************************************************************)
EXTENDS Integers, Sequences, FiniteSets, TLC

VARIABLES
    builder,    \* Option<BundleBuilder>: the builder the caller owns
    bundle,     \* Option<TransactionBundle>: the bundle the caller owns
    result,     \* Option<BundleError>: the error of the last call, if it failed
    parse_in,   \* the input given to the address codec
    parsed      \* Option of what the address codec returned

vars == <<builder, bundle, result, parse_in, parsed>>

None == <<>>
Some(x) == <<x>>

Rep(c, n) == [i \in 1..n |-> c]

Max(a, b) == IF a >= b THEN a ELSE b

\* str::starts_with
starts_with(s, p) == Len(s) >= Len(p) /\ SubSeq(s, 1, Len(p)) = p

(***************************************************************************)
(* The hex crate: hex::decode and hex::encode.                             *)
(***************************************************************************)
HexLower == <<"0","1","2","3","4","5","6","7","8","9","a","b","c","d","e","f">>
HexUpper == <<"0","1","2","3","4","5","6","7","8","9","A","B","C","D","E","F">>

IsHexDigit(c) == \E i \in 1..16 : HexLower[i] = c \/ HexUpper[i] = c

HexVal(c) == (CHOOSE i \in 1..16 : HexLower[i] = c \/ HexUpper[i] = c) - 1

\* hex::decode: odd length and non-hex characters are FromHexError
hex_decode(s) ==
    IF Len(s) % 2 # 0
    THEN [ok |-> FALSE, val |-> <<>>, err |-> "OddLength"]
    ELSE IF \E i \in 1..Len(s) : ~IsHexDigit(s[i])
    THEN [ok |-> FALSE, val |-> <<>>, err |-> "InvalidHexCharacter"]
    ELSE [ok |-> TRUE,
          val |-> [i \in 1..(Len(s) \div 2) |->
                      16 * HexVal(s[2 * i - 1]) + HexVal(s[2 * i])],
          err |-> "None"]

\* hex::encode: two lowercase digits per byte
hex_encode(bytes) ==
    [i \in 1..(2 * Len(bytes)) |->
        IF i % 2 = 1 THEN HexLower[(bytes[(i + 1) \div 2] \div 16) + 1]
                     ELSE HexLower[(bytes[i \div 2] % 16) + 1]]

(***************************************************************************)
(* AddressError and Result<Address, AddressError>.                         *)
(***************************************************************************)
\* kind, the message text, the string it carries and the length it carries
NoAddressError == [kind |-> "None", text |-> "", arg |-> <<>>, got |-> 0]
InvalidFormat(text, arg, got) ==
    [kind |-> "InvalidFormat", text |-> text, arg |-> arg, got |-> got]
HexDecode(e) == [kind |-> "HexDecode", text |-> e, arg |-> <<>>, got |-> 0]
Checksum(text) == [kind |-> "Checksum", text |-> text, arg |-> <<>>, got |-> 0]

AddrOk(a) == [ok |-> TRUE, val |-> a, err |-> NoAddressError]
AddrErr(e) == [ok |-> FALSE, val |-> <<>>, err |-> e]

AddressLen == 32
EvmLen == 20

\* Address::ZERO
ZERO == Rep(0, AddressLen)

(***************************************************************************)
(* The address-codec library contract (vexidus_types::VexidusAddress):     *)
(* a tag, a body of digits carrying the payload, and a checksum digit.     *)
(* The digit alphabet stands for base58; two digits carry one byte and the *)
(* last digit is the checksum of the payload.                              *)
(***************************************************************************)
CodecDigits == <<"1","2","3","4","5","6","7","8","9","A","B","C","D","E","F","G">>

IsCodecDigit(c) == \E i \in 1..16 : CodecDigits[i] = c

CodecVal(c) == (CHOOSE i \in 1..16 : CodecDigits[i] = c) - 1

TagVx0 == <<"V","x","0">>
TagVx1 == <<"V","x","1">>

RECURSIVE SumBytes(_)
SumBytes(b) == IF b = <<>> THEN 0 ELSE b[1] + SumBytes(Tail(b))

CodecChecksum(payload) == CodecDigits[(SumBytes(payload) % 16) + 1]

\* <VexidusAddress as FromStr>::from_str: tag and alphabet
VexidusAddress_parse(s) ==
    IF ~(starts_with(s, TagVx0) \/ starts_with(s, TagVx1))
    THEN [ok |-> FALSE, val |-> <<>>, err |-> "unknown tag"]
    ELSE IF Len(s) < 4 \/ (Len(s) - 4) % 2 # 0
            \/ \E i \in 4..Len(s) : ~IsCodecDigit(s[i])
    THEN [ok |-> FALSE, val |-> <<>>, err |-> "malformed body"]
    ELSE [ok |-> TRUE, val |-> s, err |-> ""]

\* VexidusAddress::decode: the payload, once the checksum is verified
VexidusAddress_decode(vx) ==
    LET n == (Len(vx) - 4) \div 2
        payload == [i \in 1..n |->
                       16 * CodecVal(vx[3 + 2 * i - 1]) + CodecVal(vx[3 + 2 * i])]
    IN  IF vx[Len(vx)] = CodecChecksum(payload)
        THEN [ok |-> TRUE, val |-> payload, err |-> ""]
        ELSE [ok |-> FALSE, val |-> <<>>, err |-> "checksum mismatch"]

\* the tagged, checksummed string of a payload
CodecEncode(tag, payload) ==
    tag \o [i \in 1..(2 * Len(payload)) |->
               IF i % 2 = 1 THEN CodecDigits[(payload[(i + 1) \div 2] \div 16) + 1]
                            ELSE CodecDigits[(payload[i \div 2] % 16) + 1]]
        \o <<CodecChecksum(payload)>>

\* VexidusAddress::is_valid: the shape of a tagged address, a tag and at
\* least one byte of body and a checksum digit, all of the alphabet
VexidusAddress_is_valid(s) ==
    /\ starts_with(s, TagVx0) \/ starts_with(s, TagVx1)
    /\ Len(s) >= 6
    /\ \A i \in 4..Len(s) : IsCodecDigit(s[i])

(***************************************************************************)
(* address_utils.rs                                                        *)
(***************************************************************************)
\* VexidusAddress::from_pubkey: the 20-byte payload of a public key (a digest
\* of the key bytes; every byte of the key takes part)
VexidusAddress_from_pubkey(pubkey) ==
    [i \in 1..EvmLen |->
        (SumBytes(pubkey) + 7 * pubkey[((i - 1) % Len(pubkey)) + 1] + i) % 256]

\* vx0_from_pubkey: the Vx0 string of a public key
vx0_from_pubkey(pubkey) == CodecEncode(TagVx0, VexidusAddress_from_pubkey(pubkey))

\* the payload placed in the first bytes instead of the last
vx0_to_bytes_left_aligned(vx0) ==
    LET p == VexidusAddress_parse(vx0) IN
    IF ~p.ok THEN AddrErr(InvalidFormat(p.err, <<>>, 0))
    ELSE LET d == VexidusAddress_decode(p.val) IN
         IF ~d.ok THEN AddrErr(Checksum(d.err))
         ELSE LET payload == d.val IN
              IF Len(payload) <= AddressLen
              THEN AddrOk([i \in 1..AddressLen |->
                             IF i <= Len(payload) THEN payload[i] ELSE 0])
              ELSE AddrOk(ZERO)

\* a rejected checksum reported as a format error
vx0_to_bytes_checksum_as_format(vx0) ==
    LET p == VexidusAddress_parse(vx0) IN
    IF ~p.ok THEN AddrErr(InvalidFormat(p.err, <<>>, 0))
    ELSE LET d == VexidusAddress_decode(p.val) IN
         IF ~d.ok THEN AddrErr(InvalidFormat(d.err, <<>>, 0))
         ELSE LET payload == d.val IN
              IF Len(payload) <= AddressLen
              THEN AddrOk([i \in 1..AddressLen |->
                             IF i <= AddressLen - Len(payload)
                             THEN 0
                             ELSE payload[i - (AddressLen - Len(payload))]])
              ELSE AddrOk(ZERO)

\* vx0_to_bytes: the payload right-aligned into 32 bytes
vx0_to_bytes(vx0) ==
    LET p == VexidusAddress_parse(vx0) IN
    IF ~p.ok THEN AddrErr(InvalidFormat(p.err, <<>>, 0))
    ELSE LET d == VexidusAddress_decode(p.val) IN
         IF ~d.ok THEN AddrErr(Checksum(d.err))
         ELSE LET payload == d.val IN
              IF Len(payload) <= AddressLen
              THEN AddrOk([i \in 1..AddressLen |->
                             IF i <= AddressLen - Len(payload)
                             THEN 0
                             ELSE payload[i - (AddressLen - Len(payload))]])
              ELSE AddrOk(ZERO)

\* vx0_to_hex: "0x" and the 32 bytes as hex
vx0_to_hex(vx0) ==
    LET bytes == vx0_to_bytes(vx0) IN
    IF ~bytes.ok THEN AddrErr(bytes.err)
    ELSE AddrOk(<<"0","x">> \o hex_encode(bytes.val))

\* the first 20 bytes instead of the last
vx0_to_evm_head(vx0) ==
    LET bytes == vx0_to_bytes(vx0) IN
    IF ~bytes.ok THEN AddrErr(bytes.err)
    ELSE AddrOk(<<"0","x">> \o hex_encode(SubSeq(bytes.val, 1, EvmLen)))

\* vx0_to_evm: "0x" and bytes[12..] as hex
vx0_to_evm(vx0) ==
    LET bytes == vx0_to_bytes(vx0) IN
    IF ~bytes.ok THEN AddrErr(bytes.err)
    ELSE AddrOk(<<"0","x">> \o hex_encode(SubSeq(bytes.val, AddressLen - EvmLen + 1,
                                                  AddressLen)))

\* the checksum is not verified
is_valid_vx0_undecoded(addr) ==
    IF ~VexidusAddress_is_valid(addr) THEN FALSE
    ELSE VexidusAddress_parse(addr).ok

\* is_valid_vx0: the shape check, then parse, then decode
is_valid_vx0(addr) ==
    IF ~VexidusAddress_is_valid(addr) THEN FALSE
    ELSE LET vx == VexidusAddress_parse(addr) IN
         IF vx.ok THEN VexidusAddress_decode(vx.val).ok ELSE FALSE

\* the characters are not decoded
is_valid_hex_address_length_only(addr) ==
    LET stripped == IF starts_with(addr, <<"0","x">>)
                    THEN SubSeq(addr, 3, Len(addr)) ELSE addr
    IN  Len(stripped) = 40 \/ Len(stripped) = 64

\* is_valid_hex_address: strip_prefix("0x"), 40 or 64 characters, hex::decode
is_valid_hex_address(addr) ==
    LET stripped == IF starts_with(addr, <<"0","x">>)
                    THEN SubSeq(addr, 3, Len(addr)) ELSE addr
    IN  /\ Len(stripped) = 40 \/ Len(stripped) = 64
        /\ hex_decode(stripped).ok

\* a 20-byte result placed in the first 20 bytes instead of the last
parse_address_left_aligned(input) ==
    IF starts_with(input, TagVx0) \/ starts_with(input, TagVx1)
    THEN vx0_to_bytes(input)
    ELSE IF starts_with(input, <<"0","x">>) \/ starts_with(input, <<"0","X">>)
    THEN LET hex_str == SubSeq(input, 3, Len(input))
             bytes == hex_decode(hex_str)
         IN  IF ~bytes.ok THEN AddrErr(HexDecode(bytes.err))
             ELSE IF Len(bytes.val) = EvmLen
             THEN AddrOk([i \in 1..AddressLen |->
                            IF i <= EvmLen THEN bytes.val[i] ELSE 0])
             ELSE IF Len(bytes.val) = AddressLen
             THEN AddrOk(bytes.val)
             ELSE AddrErr(InvalidFormat("Expected 20 or 32 bytes, got {}", <<>>,
                                        Len(bytes.val)))
    ELSE AddrErr(InvalidFormat("Address must start with Vx0, Vx1, or 0x: {}",
                               input, 0))

\* parse_address: dispatch by prefix
parse_address(input) ==
    IF starts_with(input, TagVx0) \/ starts_with(input, TagVx1)
    THEN vx0_to_bytes(input)
    ELSE IF starts_with(input, <<"0","x">>) \/ starts_with(input, <<"0","X">>)
    THEN LET hex_str == SubSeq(input, 3, Len(input))
             bytes == hex_decode(hex_str)
         IN  IF ~bytes.ok THEN AddrErr(HexDecode(bytes.err))
             ELSE IF Len(bytes.val) = EvmLen
             THEN AddrOk([i \in 1..AddressLen |->
                            IF i <= AddressLen - EvmLen THEN 0
                            ELSE bytes.val[i - (AddressLen - EvmLen)]])
             ELSE IF Len(bytes.val) = AddressLen
             THEN AddrOk(bytes.val)
             ELSE AddrErr(InvalidFormat("Expected 20 or 32 bytes, got {}", <<>>,
                                        Len(bytes.val)))
    ELSE AddrErr(InvalidFormat("Address must start with Vx0, Vx1, or 0x: {}",
                               input, 0))

(***************************************************************************)
(* wallet.rs: WalletKeypair.  Ed25519 is modelled symbolically: a          *)
(* signature is 64 bytes determined by the signing key and the message,    *)
(* and it verifies under exactly the matching public key and message.      *)
(***************************************************************************)
SignatureLen == 64

\* WalletKeypair::from_secret_bytes
from_secret_bytes(bytes) == [signing_key |-> bytes]

\* WalletKeypair::public_key_bytes: the verifying key of the signing key
public_key_bytes(w) == [i \in 1..AddressLen |-> (3 * w.signing_key[i] + 1) % 256]

\* WalletKeypair::public_key
public_key(w) == public_key_bytes(w)

EmptySignature == [len |-> 0, key |-> <<>>, msg |-> <<>>]

\* WalletKeypair::sign: the 64-byte Ed25519 signature of the message
WalletKeypair_sign(w, message) ==
    [len |-> SignatureLen, key |-> public_key_bytes(w), msg |-> message]

\* a digest that leaves the nonce out
hash_without_nonce(b) ==
    <<b.user_account, b.operations, b.max_gas, b.max_priority_fee, b.valid_until>>

\* TransactionBundle::hash: the canonical digest of the bundle's content
hash(b) ==
    <<b.user_account, b.operations, b.max_gas, b.max_priority_fee,
      b.valid_until, b.nonce>>

\* TransactionBundle::verify_signature: recompute the hash, check the signature
verify_signature(b, pubkey) ==
    /\ b.signature.len = SignatureLen
    /\ b.signature.key = pubkey
    /\ b.signature.msg = hash(b)

\* signs the operation list instead of the canonical hash
sign_bundle_operations_only(w, b) == WalletKeypair_sign(w, b.operations)

\* WalletKeypair::sign_bundle
sign_bundle(w, b) ==
    LET h == hash(b)
        sig_bytes == WalletKeypair_sign(w, h)
    IN  sig_bytes

(***************************************************************************)
(* bundle.rs: BundleError, BundleBuilder and parse_token.                  *)
(***************************************************************************)
BundleError_Address(e) == [kind |-> "Address", inner |-> e]
NoOperations == [kind |-> "NoOperations", inner |-> NoAddressError]

BOk(b) == [ok |-> TRUE, val |-> Some(b), err |-> None]
BErr(e) == [ok |-> FALSE, val |-> None, err |-> Some(e)]

DefaultMaxGas == 100000
DefaultValidity == 3600
CreatePoolGasFloor == 300000
LiquidityGasFloor == 150000

VXS == <<"V","X","S">>

\* str::eq_ignore_ascii_case, for the letters of the native symbol
ToUpper(c) == CASE c = "v" -> "V" [] c = "x" -> "X" [] c = "s" -> "S" [] OTHER -> c

eq_ignore_ascii_case(a, b) ==
    Len(a) = Len(b) /\ \A i \in 1..Len(a) : ToUpper(a[i]) = ToUpper(b[i])

\* the native symbol compared exactly
parse_token_case_sensitive(token) ==
    IF token = VXS THEN AddrOk(ZERO) ELSE parse_address(token)

\* parse_token: "VXS" is Address::ZERO, anything else an address
parse_token(token) ==
    IF eq_ignore_ascii_case(token, VXS) THEN AddrOk(ZERO) ELSE parse_address(token)

\* the validity deadline without the default window
BundleBuilder_new_no_window(sender, now) ==
    LET addr == parse_address(sender) IN
    IF ~addr.ok THEN BErr(BundleError_Address(addr.err))
    ELSE BOk([sender |-> addr.val,
              operations |-> <<>>,
              max_gas |-> DefaultMaxGas,
              max_priority_fee |-> 0,
              valid_until |-> DefaultValidity,
              nonce |-> 0])

\* BundleBuilder::new
BundleBuilder_new(sender, now) ==
    LET addr == parse_address(sender) IN
    IF ~addr.ok THEN BErr(BundleError_Address(addr.err))
    ELSE BOk([sender |-> addr.val,
              operations |-> <<>>,
              max_gas |-> DefaultMaxGas,
              max_priority_fee |-> 0,
              valid_until |-> now + DefaultValidity,
              nonce |-> 0])

\* puts the operation in front of the list
Push_front(self, op) == [self EXCEPT !.operations = <<op>> \o @]

\* Vec::push: one operation at the end of the builder's list
Push(self, op) == [self EXCEPT !.operations = Append(@, op)]

\* a malformed argument reported as NoOperations
transfer_reports_no_operations(self, to, token, amount) ==
    LET to_addr == parse_address(to) IN
    IF ~to_addr.ok THEN BErr(NoOperations)
    ELSE LET token_addr == parse_token(token) IN
         IF ~token_addr.ok THEN BErr(NoOperations)
         ELSE BOk(Push(self, [kind |-> "Transfer", a |-> to_addr.val,
                              b |-> token_addr.val, n |-> <<amount>>,
                              s |-> <<>>]))

\* BundleBuilder::transfer
transfer(self, to, token, amount) ==
    LET to_addr == parse_address(to) IN
    IF ~to_addr.ok THEN BErr(BundleError_Address(to_addr.err))
    ELSE LET token_addr == parse_token(token) IN
         IF ~token_addr.ok THEN BErr(BundleError_Address(token_addr.err))
         ELSE BOk(Push(self, [kind |-> "Transfer", a |-> to_addr.val,
                              b |-> token_addr.val, n |-> <<amount>>,
                              s |-> <<>>]))

\* BundleBuilder::stake
stake(self, amount, validator_pubkey) ==
    Push(self, [kind |-> "Stake", a |-> validator_pubkey, b |-> <<>>,
                n |-> <<amount>>, s |-> <<>>])

\* BundleBuilder::add_key
add_key(self, pubkey, key_type, role) ==
    Push(self, [kind |-> "AddKey", a |-> pubkey, b |-> <<>>, n |-> <<>>,
                s |-> <<key_type, role>>])

\* BundleBuilder::remove_key
remove_key(self, pubkey_hash) ==
    Push(self, [kind |-> "RemoveKey", a |-> pubkey_hash, b |-> <<>>, n |-> <<>>,
                s |-> <<>>])

\* BundleBuilder::rotate_key
rotate_key(self, old_pubkey_hash, new_pubkey, new_key_type) ==
    Push(self, [kind |-> "RotateKey", a |-> old_pubkey_hash, b |-> new_pubkey,
                n |-> <<>>, s |-> <<new_key_type>>])

\* BundleBuilder::claim_unstake
claim_unstake(self) ==
    Push(self, [kind |-> "ClaimUnstake", a |-> <<>>, b |-> <<>>, n |-> <<>>,
                s |-> <<>>])

\* BundleBuilder::set_commission
set_commission(self, rate) ==
    Push(self, [kind |-> "SetCommission", a |-> <<>>, b |-> <<>>, n |-> <<rate>>,
                s |-> <<>>])

\* BundleBuilder::unjail
unjail(self) ==
    Push(self, [kind |-> "Unjail", a |-> <<>>, b |-> <<>>, n |-> <<>>, s |-> <<>>])

\* BundleBuilder::set_validator_metadata
set_validator_metadata(self, name, description, website, avatar_url) ==
    Push(self, [kind |-> "SetValidatorMetadata", a |-> <<>>, b |-> <<>>, n |-> <<>>,
                s |-> <<name, description, website, avatar_url>>])

\* BundleBuilder::unstake
unstake(self, amount) ==
    Push(self, [kind |-> "Unstake", a |-> <<>>, b |-> <<>>, n |-> <<amount>>, s |-> <<>>])

\* BundleBuilder::claim_rewards
claim_rewards(self) ==
    Push(self, [kind |-> "ClaimRewards", a |-> <<>>, b |-> <<>>, n |-> <<>>,
                s |-> <<>>])

\* BundleBuilder::delegate
delegate(self, validator, amount) ==
    LET validator_addr == parse_address(validator) IN
    IF ~validator_addr.ok THEN BErr(BundleError_Address(validator_addr.err))
    ELSE BOk(Push(self, [kind |-> "Delegate", a |-> validator_addr.val,
                         b |-> <<>>, n |-> <<amount>>, s |-> <<>>]))

\* BundleBuilder::undelegate
undelegate(self, validator, amount) ==
    LET validator_addr == parse_address(validator) IN
    IF ~validator_addr.ok THEN BErr(BundleError_Address(validator_addr.err))
    ELSE BOk(Push(self, [kind |-> "Undelegate", a |-> validator_addr.val,
                         b |-> <<>>, n |-> <<amount>>, s |-> <<>>]))

\* assigns the floor instead of taking the maximum
create_pool_assigns_floor(self, token_a, token_b, amount_a, amount_b, lp_lock_duration) ==
    LET addr_a == parse_token(token_a) IN
    IF ~addr_a.ok THEN BErr(BundleError_Address(addr_a.err))
    ELSE LET addr_b == parse_token(token_b) IN
         IF ~addr_b.ok THEN BErr(BundleError_Address(addr_b.err))
         ELSE LET pushed == Push(self, [kind |-> "CreatePool", a |-> addr_a.val,
                                        b |-> addr_b.val,
                                        n |-> <<amount_a, amount_b, lp_lock_duration>>,
                                        s |-> <<>>])
              IN  BOk([pushed EXCEPT !.max_gas = CreatePoolGasFloor])

\* BundleBuilder::create_pool
create_pool(self, token_a, token_b, amount_a, amount_b, lp_lock_duration) ==
    LET addr_a == parse_token(token_a) IN
    IF ~addr_a.ok THEN BErr(BundleError_Address(addr_a.err))
    ELSE LET addr_b == parse_token(token_b) IN
         IF ~addr_b.ok THEN BErr(BundleError_Address(addr_b.err))
         ELSE LET pushed == Push(self, [kind |-> "CreatePool", a |-> addr_a.val,
                                        b |-> addr_b.val,
                                        n |-> <<amount_a, amount_b, lp_lock_duration>>,
                                        s |-> <<>>])
              IN  BOk([pushed EXCEPT !.max_gas = Max(@, CreatePoolGasFloor)])

\* assigns the floor instead of taking the maximum
add_liquidity_assigns_floor(self, token_a, token_b, amount_a, amount_b, min_lp_tokens) ==
    LET addr_a == parse_token(token_a) IN
    IF ~addr_a.ok THEN BErr(BundleError_Address(addr_a.err))
    ELSE LET addr_b == parse_token(token_b) IN
         IF ~addr_b.ok THEN BErr(BundleError_Address(addr_b.err))
         ELSE LET pushed == Push(self, [kind |-> "AddLiquidity", a |-> addr_a.val,
                                        b |-> addr_b.val,
                                        n |-> <<amount_a, amount_b, min_lp_tokens>>,
                                        s |-> <<>>])
              IN  BOk([pushed EXCEPT !.max_gas = LiquidityGasFloor])

\* BundleBuilder::add_liquidity
add_liquidity(self, token_a, token_b, amount_a, amount_b, min_lp_tokens) ==
    LET addr_a == parse_token(token_a) IN
    IF ~addr_a.ok THEN BErr(BundleError_Address(addr_a.err))
    ELSE LET addr_b == parse_token(token_b) IN
         IF ~addr_b.ok THEN BErr(BundleError_Address(addr_b.err))
         ELSE LET pushed == Push(self, [kind |-> "AddLiquidity", a |-> addr_a.val,
                                        b |-> addr_b.val,
                                        n |-> <<amount_a, amount_b, min_lp_tokens>>,
                                        s |-> <<>>])
              IN  BOk([pushed EXCEPT !.max_gas = Max(@, LiquidityGasFloor)])

\* BundleBuilder::remove_liquidity
remove_liquidity(self, token_a, token_b, lp_amount, min_amount_a, min_amount_b) ==
    LET addr_a == parse_token(token_a) IN
    IF ~addr_a.ok THEN BErr(BundleError_Address(addr_a.err))
    ELSE LET addr_b == parse_token(token_b) IN
         IF ~addr_b.ok THEN BErr(BundleError_Address(addr_b.err))
         ELSE LET pushed == Push(self, [kind |-> "RemoveLiquidity", a |-> addr_a.val,
                                        b |-> addr_b.val,
                                        n |-> <<lp_amount, min_amount_a, min_amount_b>>,
                                        s |-> <<>>])
              IN  BOk([pushed EXCEPT !.max_gas = Max(@, LiquidityGasFloor)])

\* BundleBuilder::swap
swap(self, from_token, to_token, amount_in, min_amount_out) ==
    LET from_addr == parse_token(from_token) IN
    IF ~from_addr.ok THEN BErr(BundleError_Address(from_addr.err))
    ELSE LET to_addr == parse_token(to_token) IN
         IF ~to_addr.ok THEN BErr(BundleError_Address(to_addr.err))
         ELSE BOk(Push(self, [kind |-> "Swap", a |-> from_addr.val,
                              b |-> to_addr.val,
                              n |-> <<amount_in, min_amount_out>>, s |-> <<>>]))

\* BundleBuilder::nonce
nonce(self, n) == [self EXCEPT !.nonce = n]

\* BundleBuilder::max_gas
max_gas(self, g) == [self EXCEPT !.max_gas = g]

\* BundleBuilder::max_priority_fee
max_priority_fee(self, f) == [self EXCEPT !.max_priority_fee = f]

\* BundleBuilder::valid_for
valid_for(self, seconds, now) == [self EXCEPT !.valid_until = now + seconds]

\* a bundle that takes the default nonce instead of the builder's
build_default_nonce(self) ==
    [user_account |-> self.sender,
     operations |-> self.operations,
     max_gas |-> self.max_gas,
     max_priority_fee |-> self.max_priority_fee,
     valid_until |-> self.valid_until,
     nonce |-> 0,
     signature |-> EmptySignature,
     expiry_timestamp |-> None]

\* BundleBuilder::build: no check of the operation list
build(self) ==
    [user_account |-> self.sender,
     operations |-> self.operations,
     max_gas |-> self.max_gas,
     max_priority_fee |-> self.max_priority_fee,
     valid_until |-> self.valid_until,
     nonce |-> self.nonce,
     signature |-> EmptySignature,
     expiry_timestamp |-> None]

\* signs every field of the bundle as it is laid out, not its canonical hash
BundleBuilder_sign_serialized(self, wallet) ==
    LET b == build(self)
    IN  [b EXCEPT !.signature =
            WalletKeypair_sign(wallet, <<b.user_account, b.operations, b.max_gas,
                                         b.max_priority_fee, b.valid_until, b.nonce,
                                         b.signature, b.expiry_timestamp>>)]

\* BundleBuilder::sign
BundleBuilder_sign(self, wallet) ==
    LET b == build(self) IN [b EXCEPT !.signature = sign_bundle(wallet, b)]

(***************************************************************************)
(* Inputs of the calls.                                                    *)
(***************************************************************************)
MaxOps == 2

Hex32(b) == <<"0","x">> \o hex_encode(Rep(b, AddressLen))

NotAnAddress == <<"n","o","t","a","n","a","d","d","r","e","s","s">>
ShortHex == <<"0","x","1","2","3","4">>
BadHex == <<"0","x","Z","Z","Z">>
Vx0Invalid == <<"V","x","0","I","N","V","A","L","I","D">>
vxs == <<"v","x","s">>

SenderInputs == {Hex32(1), NotAnAddress}
ToInputs == {Hex32(2), ShortHex}
ValidatorInputs == {<<"0","X">> \o hex_encode(Rep(3, EvmLen)), Vx0Invalid}
TokenInputs == {vxs, BadHex}
TokenAInputs == {VXS, NotAnAddress}
TokenBInputs == {Hex32(5), BadHex}
Times == {1000, 1007}
GasInputs == {50000, 400000}
NonceInputs == {0, 5}
FeeInputs == {0, 7}
SecondsInputs == {60}
Wallets == {from_secret_bytes(Rep(7, AddressLen)), from_secret_bytes(Rep(9, AddressLen))}

(***************************************************************************)
(* The calls.  A method takes the builder by value: the caller gets it     *)
(* back only inside Ok, so a call that returns Err has dropped it.         *)
(***************************************************************************)
Init ==
    /\ builder = None
    /\ bundle = None
    /\ result = None
    /\ parse_in = <<>>
    /\ parsed = None

Returned(r) ==
    /\ builder' = r.val
    /\ result' = r.err
    /\ UNCHANGED <<bundle, parse_in, parsed>>

Chained(b) ==
    /\ builder' = Some(b)
    /\ result' = None
    /\ UNCHANGED <<bundle, parse_in, parsed>>

HasRoom == builder # None /\ Len(builder[1].operations) < MaxOps

New(sender, now) ==
    /\ builder = None
    /\ builder' = BundleBuilder_new(sender, now).val
    /\ result' = BundleBuilder_new(sender, now).err
    /\ bundle' = None
    /\ UNCHANGED <<parse_in, parsed>>

Transfer(to, token) == HasRoom /\ Returned(transfer(builder[1], to, token, 1000000000))

Stake == HasRoom /\ Chained(stake(builder[1], 100, Rep(42, AddressLen)))

Unstake == HasRoom /\ Chained(unstake(builder[1], 50))

ClaimRewards == HasRoom /\ Chained(claim_rewards(builder[1]))

ClaimUnstake == HasRoom /\ Chained(claim_unstake(builder[1]))

AddKey == HasRoom /\ Chained(add_key(builder[1], Rep(11, AddressLen), "Ed25519", "Owner"))

RemoveKey == HasRoom /\ Chained(remove_key(builder[1], Rep(12, AddressLen)))

RotateKey ==
    HasRoom /\ Chained(rotate_key(builder[1], Rep(12, AddressLen), Rep(13, AddressLen),
                                  "Ed25519"))

SetCommission == HasRoom /\ Chained(set_commission(builder[1], 500))

Unjail == HasRoom /\ Chained(unjail(builder[1]))

SetValidatorMetadata ==
    HasRoom /\ Chained(set_validator_metadata(builder[1], "name", "description",
                                              "website", "avatar"))

Delegate(validator) == HasRoom /\ Returned(delegate(builder[1], validator, 500))

Undelegate(validator) == HasRoom /\ Returned(undelegate(builder[1], validator, 500))

CreatePool(ta, tb) == HasRoom /\ Returned(create_pool(builder[1], ta, tb, 10, 5, 0))

AddLiquidity(ta, tb) == HasRoom /\ Returned(add_liquidity(builder[1], ta, tb, 10, 5, 1))

RemoveLiquidity(ta, tb) ==
    HasRoom /\ Returned(remove_liquidity(builder[1], ta, tb, 3, 1, 1))

Swap(ta, tb) == HasRoom /\ Returned(swap(builder[1], ta, tb, 100, 95))

SetNonce(n) == builder # None /\ Chained(nonce(builder[1], n))

SetMaxGas(g) == builder # None /\ Chained(max_gas(builder[1], g))

SetMaxPriorityFee(f) == builder # None /\ Chained(max_priority_fee(builder[1], f))

ValidFor(seconds, now) == builder # None /\ Chained(valid_for(builder[1], seconds, now))

Build ==
    /\ builder # None
    /\ bundle' = Some(build(builder[1]))
    /\ builder' = None
    /\ result' = None
    /\ UNCHANGED <<parse_in, parsed>>

Sign(wallet) ==
    /\ builder # None
    /\ bundle' = Some(BundleBuilder_sign(builder[1], wallet))
    /\ builder' = None
    /\ result' = None
    /\ UNCHANGED <<parse_in, parsed>>

\* the caller stores sign_bundle's result into the bundle it was computed from
SignBundle(wallet) ==
    /\ bundle # None
    /\ bundle[1].signature = EmptySignature
    /\ bundle' = Some([bundle[1] EXCEPT !.signature = sign_bundle(wallet, bundle[1])])
    /\ UNCHANGED <<builder, result, parse_in, parsed>>

Next ==
    \/ \E s \in SenderInputs, t \in Times : New(s, t)
    \/ \E to \in ToInputs, token \in TokenInputs : Transfer(to, token)
    \/ Stake
    \/ \E v \in ValidatorInputs : Delegate(v)
    \/ \E v \in ValidatorInputs : Undelegate(v)
    \/ \E ta \in TokenAInputs, tb \in TokenBInputs : CreatePool(ta, tb)
    \/ \E ta \in TokenAInputs, tb \in TokenBInputs : AddLiquidity(ta, tb)
    \/ \E ta \in TokenAInputs, tb \in TokenBInputs : RemoveLiquidity(ta, tb)
    \/ \E ta \in TokenAInputs, tb \in TokenBInputs : Swap(ta, tb)
    \/ \E n \in NonceInputs : SetNonce(n)
    \/ \E g \in GasInputs : SetMaxGas(g)
    \/ \E f \in FeeInputs : SetMaxPriorityFee(f)
    \/ \E sec \in SecondsInputs, t \in Times : ValidFor(sec, t)
    \/ Build
    \/ \E w \in Wallets : Sign(w)
    \/ \E w \in Wallets : SignBundle(w)

Spec == Init /\ [][Next]_vars

(***************************************************************************)
(* Every operation-adding method, with one setter, build and sign.         *)
(***************************************************************************)
SpecOps ==
    Init /\ [][\/ \E s \in SenderInputs, t \in {1000} : New(s, t)
               \/ \E to \in ToInputs, token \in TokenInputs : Transfer(to, token)
               \/ AddKey
               \/ RemoveKey
               \/ RotateKey
               \/ Stake
               \/ Unstake
               \/ ClaimUnstake
               \/ \E v \in ValidatorInputs : Delegate(v)
               \/ \E v \in ValidatorInputs : Undelegate(v)
               \/ ClaimRewards
               \/ SetCommission
               \/ Unjail
               \/ SetValidatorMetadata
               \/ \E ta \in TokenAInputs, tb \in TokenBInputs : CreatePool(ta, tb)
               \/ \E ta \in TokenAInputs, tb \in TokenBInputs : AddLiquidity(ta, tb)
               \/ \E ta \in TokenAInputs, tb \in TokenBInputs : RemoveLiquidity(ta, tb)
               \/ \E ta \in TokenAInputs, tb \in TokenBInputs : Swap(ta, tb)
               \/ \E g \in GasInputs : SetMaxGas(g)
               \/ Build
               \/ \E w \in Wallets : Sign(w)]_vars

(***************************************************************************)
(* Properties of the builder.                                              *)
(***************************************************************************)
Ops == builder[1].operations

HasKind(ops, k) == \E i \in 1..Len(ops) : ops[i].kind = k

BuildOrSign == Build \/ \E w \in Wallets : Sign(w)

\* C1: build() and sign() on a builder with an empty operation list fail
\* with NoOperations and produce no bundle.
C1_EmptyBundleRejected ==
    [][(builder # None /\ Ops = <<>> /\ BuildOrSign)
          => (bundle' = None /\ result' = Some(NoOperations))]_vars

\* C2: the bundle sign(wallet) returns, and a built bundle that got
\* sign_bundle's result stored into it, carries a 64-byte signature that
\* verifies under the wallet's public key.
C2_SignedBundleVerifies ==
    [][\A w \in Wallets :
          (Sign(w) \/ SignBundle(w))
             => /\ bundle'[1].signature.len = 64
                /\ verify_signature(bundle'[1], public_key(w))]_vars

C2_Witness ==
    /\ bundle # None
    /\ Len(bundle[1].operations) = 2
    /\ bundle[1].nonce = 5
    /\ \E w \in Wallets : verify_signature(bundle[1], public_key(w))

\* C4: a successful create_pool sets max gas to max(current, 300000).
C4_CreatePoolGasFloor ==
    [][\A ta \in TokenAInputs, tb \in TokenBInputs :
          (CreatePool(ta, tb) /\ builder' # None)
             => builder'[1].max_gas =
                   (IF builder[1].max_gas > 300000 THEN builder[1].max_gas
                    ELSE 300000)]_vars

C4_Witness ==
    /\ builder # None
    /\ Len(Ops) = 2
    /\ Ops[1].kind = "CreatePool"
    /\ Ops[2].kind = "CreatePool"
    /\ builder[1].max_gas = 400000

\* C5: a successful add_liquidity or remove_liquidity sets max gas to
\* max(current, 150000), so it never lowers the value create_pool reached.
C5_LiquidityGasFloor ==
    [][\A ta \in TokenAInputs, tb \in TokenBInputs :
          ((AddLiquidity(ta, tb) \/ RemoveLiquidity(ta, tb)) /\ builder' # None)
             => /\ builder'[1].max_gas =
                      (IF builder[1].max_gas > 150000 THEN builder[1].max_gas
                       ELSE 150000)
                /\ (HasKind(Ops, "CreatePool") /\ builder[1].max_gas >= 300000
                      => builder'[1].max_gas >= 300000)]_vars

C5_Witness ==
    /\ builder # None
    /\ Len(Ops) = 2
    /\ Ops[1].kind = "CreatePool"
    /\ Ops[2].kind = "AddLiquidity"
    /\ builder[1].max_gas = 300000

FallibleCall ==
    \/ \E to \in ToInputs, token \in TokenInputs : Transfer(to, token)
    \/ \E v \in ValidatorInputs : Delegate(v) \/ Undelegate(v)
    \/ \E ta \in TokenAInputs, tb \in TokenBInputs :
          CreatePool(ta, tb) \/ AddLiquidity(ta, tb) \/ RemoveLiquidity(ta, tb)
             \/ Swap(ta, tb)

\* C7: an operation-adding call given a malformed address or token fails
\* alone: the builder the caller had keeps its state and stays usable.
C7_FailedCallKeepsBuilder ==
    [][(FallibleCall /\ result' # None) => builder' = builder]_vars

\* C8: a fresh builder has max gas 100000, fee 0, nonce 0, deadline
\* construction time + 3600, no operations and the parsed sender; an
\* unparseable sender yields no builder.
C8_ConstructionDefaults ==
    [][\A sender \in SenderInputs, t \in Times :
          New(sender, t)
             => IF parse_address(sender).ok
                THEN /\ builder' = Some([sender |-> parse_address(sender).val,
                                         operations |-> <<>>,
                                         max_gas |-> 100000,
                                         max_priority_fee |-> 0,
                                         valid_until |-> t + 3600,
                                         nonce |-> 0])
                     /\ result' = None
                ELSE builder' = None /\ result' # None]_vars

C8_Witness ==
    /\ builder # None
    /\ Ops = <<>>
    /\ builder[1].valid_until = 4607
    /\ builder[1].sender = Rep(1, 32)
    /\ builder[1].max_gas = 100000

\* C9: build() copies the builder's current values, the last set value of
\* each field, with an empty signature and no legacy expiry.
C9_BuildCopiesBuilder ==
    [][/\ Build => bundle' = Some([user_account |-> builder[1].sender,
                                   operations |-> Ops,
                                   max_gas |-> builder[1].max_gas,
                                   max_priority_fee |-> builder[1].max_priority_fee,
                                   valid_until |-> builder[1].valid_until,
                                   nonce |-> builder[1].nonce,
                                   signature |-> [len |-> 0, key |-> <<>>, msg |-> <<>>],
                                   expiry_timestamp |-> <<>>])
       /\ \A n \in NonceInputs : SetNonce(n) => builder'[1].nonce = n
       /\ \A g \in GasInputs : SetMaxGas(g) => builder'[1].max_gas = g
       /\ \A f \in FeeInputs :
             SetMaxPriorityFee(f) => builder'[1].max_priority_fee = f]_vars

C9_Witness ==
    /\ bundle # None
    /\ Len(bundle[1].operations) = 1
    /\ bundle[1].operations[1].kind = "Transfer"
    /\ bundle[1].operations[1].b = ZERO
    /\ bundle[1].user_account = Rep(1, 32)
    /\ bundle[1].nonce = 5
    /\ bundle[1].max_gas = 50000
    /\ bundle[1].signature.len = 0

\* C6: each successful operation-adding call appends one operation at the
\* end, no other call touches the list, and the built bundle carries the
\* builder's list as it is.
Appended(kind) ==
    builder' # None
       => /\ Len(builder'[1].operations) = Len(Ops) + 1
          /\ SubSeq(builder'[1].operations, 1, Len(Ops)) = Ops
          /\ builder'[1].operations[Len(Ops) + 1].kind = kind

C6_OperationsInCallOrder ==
    [][/\ (\E to \in ToInputs, token \in TokenInputs : Transfer(to, token))
             => Appended("Transfer")
       /\ AddKey => Appended("AddKey")
       /\ RemoveKey => Appended("RemoveKey")
       /\ RotateKey => Appended("RotateKey")
       /\ Stake => Appended("Stake")
       /\ Unstake => Appended("Unstake")
       /\ ClaimUnstake => Appended("ClaimUnstake")
       /\ (\E v \in ValidatorInputs : Delegate(v)) => Appended("Delegate")
       /\ (\E v \in ValidatorInputs : Undelegate(v)) => Appended("Undelegate")
       /\ ClaimRewards => Appended("ClaimRewards")
       /\ SetCommission => Appended("SetCommission")
       /\ Unjail => Appended("Unjail")
       /\ SetValidatorMetadata => Appended("SetValidatorMetadata")
       /\ (\E ta \in TokenAInputs, tb \in TokenBInputs : CreatePool(ta, tb))
             => Appended("CreatePool")
       /\ (\E ta \in TokenAInputs, tb \in TokenBInputs : AddLiquidity(ta, tb))
             => Appended("AddLiquidity")
       /\ (\E ta \in TokenAInputs, tb \in TokenBInputs : RemoveLiquidity(ta, tb))
             => Appended("RemoveLiquidity")
       /\ (\E ta \in TokenAInputs, tb \in TokenBInputs : Swap(ta, tb))
             => Appended("Swap")
       /\ (\E g \in GasInputs : SetMaxGas(g)) => builder'[1].operations = Ops
       /\ BuildOrSign => bundle'[1].operations = Ops]_vars

C6_Witness ==
    /\ bundle # None
    /\ Len(bundle[1].operations) = 2
    /\ bundle[1].operations[1].kind = "Transfer"
    /\ bundle[1].operations[2].kind = "Delegate"

(***************************************************************************)
(* A signed bundle whose owner changes one of its fields.                  *)
(***************************************************************************)
MutationKinds ==
    {"sender", "operation", "order", "max_gas", "max_priority_fee", "valid_until",
     "nonce"}

Mutated(b, m) ==
    CASE m = "sender" -> [b EXCEPT !.user_account[AddressLen] = (@ + 1) % 256]
      [] m = "operation" -> [b EXCEPT !.operations[1].n[1] = @ + 1]
      [] m = "order" -> [b EXCEPT !.operations[1] = b.operations[2],
                                  !.operations[2] = b.operations[1]]
      [] m = "max_gas" -> [b EXCEPT !.max_gas = @ + 1]
      [] m = "max_priority_fee" -> [b EXCEPT !.max_priority_fee = @ + 1]
      [] m = "valid_until" -> [b EXCEPT !.valid_until = @ + 1]
      [] m = "nonce" -> [b EXCEPT !.nonce = @ + 1]

Mutate(m) ==
    /\ bundle # None
    /\ \E w \in Wallets : verify_signature(bundle[1], public_key(w))
    /\ m = "operation" => Len(bundle[1].operations) >= 1
    /\ m = "order" => /\ Len(bundle[1].operations) >= 2
                      /\ bundle[1].operations[1] # bundle[1].operations[2]
    /\ bundle' = Some(Mutated(bundle[1], m))
    /\ UNCHANGED <<builder, result, parse_in, parsed>>

SpecAuth ==
    Init /\ [][\/ \E t \in {1000} : New(Hex32(1), t)
               \/ \E to \in ToInputs, token \in TokenInputs : Transfer(to, token)
               \/ \E v \in ValidatorInputs : Delegate(v)
               \/ \E n \in NonceInputs : SetNonce(n)
               \/ \E g \in GasInputs : SetMaxGas(g)
               \/ Build
               \/ \E w \in Wallets : Sign(w)
               \/ \E w \in Wallets : SignBundle(w)
               \/ \E m \in {"sender", "operation", "order", "max_gas", "max_priority_fee",
                            "valid_until", "nonce"} : Mutate(m)]_vars

\* C3: once a bundle is signed, changing any one content field of it makes
\* verification under the signer's public key fail.
C3_MutationBreaksSignature ==
    [][\A m \in MutationKinds, w \in Wallets :
          (Mutate(m) /\ verify_signature(bundle[1], public_key(w)))
             => ~verify_signature(bundle'[1], public_key(w))]_vars

C3_Witness ==
    /\ bundle # None
    /\ bundle[1].signature.len = 64
    /\ bundle[1].nonce = 6
    /\ Len(bundle[1].operations) = 2
    /\ \A w \in Wallets : ~verify_signature(bundle[1], public_key(w))

(***************************************************************************)
(* The address codec on its own.                                           *)
(***************************************************************************)
Body(c1, c2, n) == [i \in 1..n |-> IF i % 2 = 1 THEN c1 ELSE c2]

Payloads ==
    {Rep(42, EvmLen), [i \in 1..EvmLen |-> i], Rep(7, AddressLen),
     Rep(7, AddressLen + 1), Rep(0, 1)}

\* a valid string whose checksum digit is replaced by another digit
BadChecksum(vx) ==
    [vx EXCEPT ![Len(vx)] = CodecDigits[((CodecVal(@) + 1) % 16) + 1]]

AddrInputs ==
    {p \o Body(c1, c2, n) :
        p \in {TagVx0, TagVx1, <<"0","x">>, <<"0","X">>, <<>>, <<"v","x","0">>, <<"x","0">>},
        c1 \in {"0", "1", "a", "F", "G", "Z"}, c2 \in {"0", "1", "a", "F", "G", "Z"},
        n \in {0, 3, 4, 38, 40, 42, 64, 66}}
      \cup {CodecEncode(t, p) : t \in {TagVx0, TagVx1}, p \in Payloads}
      \cup {BadChecksum(CodecEncode(TagVx0, p)) : p \in Payloads}
      \cup {NotAnAddress, ShortHex, BadHex, Vx0Invalid, VXS}

InitAddr ==
    /\ builder = None
    /\ bundle = None
    /\ result = None
    /\ parse_in \in AddrInputs
    /\ parsed = None

ParseAddress ==
    /\ parsed = None
    /\ parsed' = Some(parse_address(parse_in))
    /\ UNCHANGED <<builder, bundle, result, parse_in>>

SpecAddr == InitAddr /\ [][ParseAddress]_vars

IsHuman(s) == starts_with(s, <<"V","x","0">>) \/ starts_with(s, <<"V","x","1">>)

IsHex(s) == starts_with(s, <<"0","x">>) \/ starts_with(s, <<"0","X">>)

\* C10: parse_address dispatches by prefix: "Vx0"/"Vx1" take the
\* human-facing path; "0x"/"0X" is hex-decoded, 20 bytes go to bytes 12..32
\* of a zero-filled Address, 32 bytes are used verbatim, another length is
\* InvalidFormat with that length; any other prefix is InvalidFormat.
C10_PrefixDispatch ==
    parsed # None =>
       LET r == parsed[1]
           d == hex_decode(SubSeq(parse_in, 3, Len(parse_in)))
       IN  /\ IsHuman(parse_in) => r = vx0_to_bytes(parse_in)
           /\ (IsHex(parse_in) /\ d.ok /\ Len(d.val) = 20)
                 => /\ r.ok
                    /\ Len(r.val) = 32
                    /\ \A i \in 1..12 : r.val[i] = 0
                    /\ \A i \in 1..20 : r.val[12 + i] = d.val[i]
           /\ (IsHex(parse_in) /\ d.ok /\ Len(d.val) = 32) => (r.ok /\ r.val = d.val)
           /\ (IsHex(parse_in) /\ d.ok /\ Len(d.val) \notin {20, 32})
                 => /\ ~r.ok
                    /\ r.err.kind = "InvalidFormat"
                    /\ r.err.got = Len(d.val)
           /\ (~IsHuman(parse_in) /\ ~IsHex(parse_in))
                 => (~r.ok /\ r.err.kind = "InvalidFormat")

C10_Witness ==
    /\ parsed # None
    /\ parse_in = <<"0","X">> \o Body("a", "F", 40)
    /\ parsed[1].ok
    /\ parsed[1].val[12] = 0
    /\ parsed[1].val[13] = 175
    /\ parsed[1].val[32] = 175

(***************************************************************************)
(* The two hex forms of one 20-byte payload (test_parse_hex_address).      *)
(***************************************************************************)
InitAlign ==
    /\ builder = None
    /\ bundle = None
    /\ result = None
    /\ parse_in \in
          {[i \in 1..EvmLen |-> (a * i + b) % 256] :
              a \in {0, 1, 3, 7, 13, 17, 101, 255}, b \in {0, 1, 2, 15, 16, 127, 128, 255}}
    /\ parsed = None

ParseBothForms ==
    /\ parsed = None
    /\ parsed' = Some([short |-> parse_address(<<"0","x">> \o hex_encode(parse_in)),
                       long |-> parse_address(<<"0","x">> \o Rep("0", 24)
                                                 \o hex_encode(parse_in))])
    /\ UNCHANGED <<builder, bundle, result, parse_in>>

SpecAlign == InitAlign /\ [][ParseBothForms]_vars

\* C11: for a 20-byte payload p, parse_address of "0x" + hex(p) and of
\* "0x" + 24 zeros + hex(p) return the same Address: 12 zero bytes, then p.
C11_RightAlignment ==
    parsed # None =>
       /\ parsed[1].short.ok
       /\ parsed[1].long.ok
       /\ parsed[1].short = parsed[1].long
       /\ Len(parsed[1].short.val) = 32
       /\ \A i \in 1..12 : parsed[1].short.val[i] = 0
       /\ \A i \in 1..20 : parsed[1].short.val[12 + i] = parse_in[i]

C11_Witness ==
    /\ parsed # None
    /\ parse_in = [i \in 1..20 |-> (13 * i + 127) % 256]
    /\ parsed[1].long.ok
    /\ parsed[1].short.val[13] = 140
    /\ parsed[1].long.val[32] = 131

(***************************************************************************)
(* A public key encoded, then decoded both ways (test_vx0_roundtrip).      *)
(***************************************************************************)
InitRoundtrip ==
    /\ builder = None
    /\ bundle = None
    /\ result = None
    /\ parse_in \in
          {[i \in 1..AddressLen |-> (a * i + b) % 256] :
              a \in {0, 1, 5, 11, 37, 64, 200, 255},
              b \in {0, 1, 42, 99, 100, 128, 254, 255}}
    /\ parsed = None

Roundtrip ==
    /\ parsed = None
    /\ LET vx0 == vx0_from_pubkey(parse_in)
       IN  parsed' = Some([vx0 |-> vx0,
                           bytes |-> vx0_to_bytes(vx0),
                           addr |-> parse_address(vx0)])
    /\ UNCHANGED <<builder, bundle, result, parse_in>>

SpecRoundtrip == InitRoundtrip /\ [][Roundtrip]_vars

\* C12: for a 32-byte public key k, vx0_from_pubkey(k) decodes, and
\* vx0_to_bytes of it is the payload right-aligned into 32 bytes and equals
\* what parse_address returns for the same string.
C12_PubkeyRoundtrip ==
    parsed # None =>
       LET r == parsed[1]
           payload == VexidusAddress_from_pubkey(parse_in)
           pad == AddressLen - Len(payload)
       IN  /\ r.bytes.ok
           /\ r.addr = r.bytes
           /\ Len(r.bytes.val) = AddressLen
           /\ \A i \in 1..AddressLen :
                 r.bytes.val[i] = IF i <= pad THEN 0 ELSE payload[i - pad]

C12_Witness ==
    /\ parsed # None
    /\ parse_in = Rep(42, 32)
    /\ starts_with(parsed[1].vx0, TagVx0)
    /\ parsed[1].addr.ok
    /\ parsed[1].bytes.val # ZERO
    /\ parsed[1].bytes.val[1] = 0

(***************************************************************************)
(* The views and the validity of one string (test_vx0_to_hex_and_evm,      *)
(* test_validation).                                                       *)
(***************************************************************************)
InitViews ==
    /\ builder = None
    /\ bundle = None
    /\ result = None
    /\ parse_in \in AddrInputs
    /\ parsed = None

Views ==
    /\ parsed = None
    /\ parsed' = Some([bytes |-> vx0_to_bytes(parse_in),
                       hex |-> vx0_to_hex(parse_in),
                       evm |-> vx0_to_evm(parse_in),
                       valid_vx0 |-> is_valid_vx0(parse_in),
                       valid_hex |-> is_valid_hex_address(parse_in),
                       addr |-> parse_address(parse_in)])
    /\ UNCHANGED <<builder, bundle, result, parse_in>>

SpecViews == InitViews /\ [][Views]_vars

IsLowerHex(s) == \A i \in 1..Len(s) : \E k \in 1..16 : HexLower[k] = s[i]

\* C13: for a human-facing string that decodes, vx0_to_hex is "0x" and 64
\* lowercase hex characters, vx0_to_evm is "0x" and 40 lowercase hex
\* characters, and the 40 are the last 40 of the 64.
C13_HexAndEvmViews ==
    (parsed # None /\ parsed[1].bytes.ok) =>
       LET h == parsed[1].hex
           e == parsed[1].evm
       IN  /\ h.ok /\ e.ok
           /\ Len(h.val) = 66 /\ Len(e.val) = 42
           /\ SubSeq(h.val, 1, 2) = <<"0","x">>
           /\ SubSeq(e.val, 1, 2) = <<"0","x">>
           /\ IsLowerHex(SubSeq(h.val, 3, 66))
           /\ IsLowerHex(SubSeq(e.val, 3, 42))
           /\ SubSeq(e.val, 3, 42) = SubSeq(h.val, 27, 66)

C13_Witness ==
    /\ parsed # None
    /\ parse_in = CodecEncode(TagVx0, Rep(42, 20))
    /\ parsed[1].hex.val = <<"0","x">> \o Rep("0", 24) \o Body("2", "a", 40)
    /\ parsed[1].evm.val = <<"0","x">> \o Body("2", "a", 40)

\* C14: vx0_to_bytes returns an error whenever the codec's decoded payload is
\* longer than 32 bytes; for a payload of at most 32 bytes it returns the
\* payload right-aligned behind zero bytes.
C14_OversizedPayloadRejected ==
    parsed # None =>
       LET p == VexidusAddress_parse(parse_in)
           d == VexidusAddress_decode(p.val)
           pad == AddressLen - Len(d.val)
       IN  (p.ok /\ d.ok) =>
              IF Len(d.val) > AddressLen
              THEN ~parsed[1].bytes.ok
              ELSE parsed[1].bytes =
                      AddrOk([i \in 1..AddressLen |->
                                 IF i <= pad THEN 0 ELSE d.val[i - pad]])

\* the string without one leading "0x", if it has one
WithoutTag(s) ==
    IF Len(s) >= 2 /\ s[1] = "0" /\ s[2] = "x" THEN SubSeq(s, 3, Len(s)) ELSE s

\* C15: is_valid_hex_address(s) is true exactly when s, without one optional
\* leading "0x", has exactly 40 or exactly 64 characters, all hex digits.
C15_HexValidity ==
    parsed # None =>
       (parsed[1].valid_hex <=>
           /\ Len(WithoutTag(parse_in)) \in {40, 64}
           /\ \A i \in 1..Len(WithoutTag(parse_in)) : IsHexDigit(WithoutTag(parse_in)[i]))

C15_Witness ==
    /\ parsed # None
    /\ parse_in = <<"0","x">> \o Body("a", "F", 40)
    /\ parsed[1].valid_hex
    /\ parsed[1].addr.ok

\* the cases of a failing string
MalformedHex(s) == IsHex(s) /\ ~hex_decode(SubSeq(s, 3, Len(s))).ok

WrongDecodedLength(s) ==
    /\ IsHex(s)
    /\ hex_decode(SubSeq(s, 3, Len(s))).ok
    /\ Len(hex_decode(SubSeq(s, 3, Len(s))).val) \notin {20, 32}

ChecksumRejected(s) ==
    /\ IsHuman(s)
    /\ VexidusAddress_parse(s).ok
    /\ ~VexidusAddress_decode(s).ok

\* C16, as stated: a failure of the address codec is InvalidFormat or
\* Checksum; unrecognized prefix, wrong decoded length and malformed hex after
\* "0x" are InvalidFormat, a rejected checksum is Checksum.
C16_TwoErrorKinds ==
    (parsed # None /\ ~parsed[1].ok) =>
       LET k == parsed[1].err.kind
       IN  /\ k \in {"InvalidFormat", "Checksum"}
           /\ (~IsHuman(parse_in) /\ ~IsHex(parse_in)) => k = "InvalidFormat"
           /\ WrongDecodedLength(parse_in) => k = "InvalidFormat"
           /\ MalformedHex(parse_in) => k = "InvalidFormat"
           /\ ChecksumRejected(parse_in) => k = "Checksum"

\* C16, amended: a failure of the address codec is InvalidFormat, HexDecode
\* or Checksum; unrecognized prefix, a tagged string the codec cannot parse and
\* a wrong decoded length are InvalidFormat, malformed hex after "0x"/"0X" is
\* HexDecode, a rejected checksum is Checksum.
C16_ThreeErrorKinds ==
    (parsed # None /\ ~parsed[1].ok) =>
       LET k == parsed[1].err.kind
       IN  /\ k \in {"InvalidFormat", "HexDecode", "Checksum"}
           /\ (~IsHuman(parse_in) /\ ~IsHex(parse_in)) => k = "InvalidFormat"
           /\ (IsHuman(parse_in) /\ ~VexidusAddress_parse(parse_in).ok)
                 => k = "InvalidFormat"
           /\ WrongDecodedLength(parse_in) => k = "InvalidFormat"
           /\ MalformedHex(parse_in) => k = "HexDecode"
           /\ ChecksumRejected(parse_in) => k = "Checksum"

C16_Witness ==
    /\ parsed # None
    /\ parse_in = BadHex
    /\ MalformedHex(parse_in)
    /\ ~parsed[1].ok
    /\ parsed[1].err = HexDecode("OddLength")

\* C17: is_valid_vx0(s) is true only if s passes the codec's shape check,
\* parses as a tagged address and decodes with a valid checksum; then
\* vx0_to_bytes(s) and parse_address(s) succeed, and a correctly shaped string
\* whose checksum is rejected is invalid.
C17_ValidVx0Decodes ==
    parsed # None =>
       /\ parsed[1].valid_vx0 =>
             /\ VexidusAddress_is_valid(parse_in)
             /\ VexidusAddress_parse(parse_in).ok
             /\ VexidusAddress_decode(parse_in).ok
             /\ parsed[1].bytes.ok
             /\ parsed[1].addr.ok
       /\ (VexidusAddress_is_valid(parse_in) /\ ChecksumRejected(parse_in))
             => ~parsed[1].valid_vx0

C17_Witness ==
    /\ parsed # None
    /\ parse_in = CodecEncode(TagVx1, Rep(42, EvmLen))
    /\ parsed[1].valid_vx0
    /\ parsed[1].bytes.ok
    /\ parsed[1].addr.val[32] = 42

\* a "0x"/"0X" string of 40 or 64 hex digits of either case
IsHexAddressVariant(s) ==
    /\ IsHex(s)
    /\ Len(s) - 2 \in {40, 64}
    /\ \A i \in 3..Len(s) : IsHexDigit(s[i])

\* the variant with the lowercase tag and lowercase digits
LowercaseVariant(s) ==
    <<"0","x">> \o hex_encode(hex_decode(SubSeq(s, 3, Len(s))).val)

\* C18: a hex address is accepted case-insensitively: every variant in the
\* case of the tag ("0x"/"0X") or of the hex digits is accepted by
\* is_valid_hex_address and by parse_address, and parse_address returns the
\* same Address for all variants.
C18_HexCaseInsensitive ==
    (parsed # None /\ IsHexAddressVariant(parse_in)) =>
       /\ parsed[1].valid_hex
       /\ parsed[1].addr.ok
       /\ parsed[1].addr = parse_address(LowercaseVariant(parse_in))

(***************************************************************************)
(* The token identifier rule (parse_token).                                *)
(***************************************************************************)
VxsVariants ==
    {<<a, b, c>> : a \in {"v", "V"}, b \in {"x", "X"}, c \in {"s", "S"}}

InitToken ==
    /\ builder = None
    /\ bundle = None
    /\ result = None
    /\ parse_in \in
          VxsVariants \cup AddrInputs
             \cup {<<"V","X">>, <<"V","X","S","S">>, <<"V","X","5">>, <<" ","V","X","S">>,
                   <<"v","x","z">>, <<>>}
    /\ parsed = None

ParseToken ==
    /\ parsed = None
    /\ parsed' = Some(parse_token(parse_in))
    /\ UNCHANGED <<builder, bundle, result, parse_in>>

SpecToken == InitToken /\ [][ParseToken]_vars

\* C19: a token identifier equal to "VXS" up to ASCII case resolves to the
\* all-zero Address, which the codec would not return for it; every other
\* token string resolves to what parse_address returns, its error included.
C19_TokenRule ==
    parsed # None =>
       IF parse_in \in VxsVariants
       THEN parsed[1] = AddrOk(ZERO) /\ ~parse_address(parse_in).ok
       ELSE parsed[1] = parse_address(parse_in)

C19_Witness ==
    /\ parsed # None
    /\ parse_in = <<"v","X","s">>
    /\ parsed[1].ok
    /\ parsed[1].val = ZERO

\* the error of the first of two resolutions that fails
FirstErr(r1, r2) == IF ~r1.ok THEN r1.err ELSE r2.err

\* C20: a failing construction or operation-adding call returns
\* BundleError::Address wrapping the codec's error for its first malformed
\* argument; construction, operation-adding calls and the max_gas setter
\* never return NoOperations.
C20_FailuresWrapCodecError ==
    [][/\ result' # None =>
          /\ \A sender \in SenderInputs, t \in Times :
                New(sender, t)
                   => result' = Some(BundleError_Address(parse_address(sender).err))
          /\ \A to \in ToInputs, token \in TokenInputs :
                Transfer(to, token)
                   => result' = Some(BundleError_Address(
                                        FirstErr(parse_address(to), parse_token(token))))
          /\ \A v \in ValidatorInputs :
                (Delegate(v) \/ Undelegate(v))
                   => result' = Some(BundleError_Address(parse_address(v).err))
          /\ \A ta \in TokenAInputs, tb \in TokenBInputs :
                (CreatePool(ta, tb) \/ AddLiquidity(ta, tb) \/ RemoveLiquidity(ta, tb)
                    \/ Swap(ta, tb))
                   => result' = Some(BundleError_Address(
                                        FirstErr(parse_token(ta), parse_token(tb))))
          /\ result'[1].kind = "Address" => result'[1].inner.kind # "None"
       /\ result' = Some(NoOperations) =>
             ~((\E sender \in SenderInputs, t \in Times : New(sender, t))
                  \/ FallibleCall \/ AddKey \/ RemoveKey \/ RotateKey \/ Stake
                  \/ Unstake \/ ClaimUnstake \/ ClaimRewards \/ SetCommission
                  \/ Unjail \/ SetValidatorMetadata
                  \/ \E g \in GasInputs : SetMaxGas(g))]_vars

C20_Witness ==
    /\ builder = None
    /\ bundle = None
    /\ result = Some(BundleError_Address(HexDecode("OddLength")))

\* C21: sign(wallet) returns the bundle build() would return for the same
\* builder, except for the signature, which is the wallet's 64-byte signature
\* over the canonical hash of that built bundle; the builder is consumed.
C21_SignIsBuildThenSign ==
    [][\A w \in Wallets :
          Sign(w)
             => LET built == [user_account |-> builder[1].sender,
                              operations |-> Ops,
                              max_gas |-> builder[1].max_gas,
                              max_priority_fee |-> builder[1].max_priority_fee,
                              valid_until |-> builder[1].valid_until,
                              nonce |-> builder[1].nonce,
                              signature |-> [len |-> 0, key |-> <<>>, msg |-> <<>>],
                              expiry_timestamp |-> <<>>]
                IN  /\ bundle' # None
                    /\ [bundle'[1] EXCEPT !.signature = built.signature] = built
                    /\ bundle'[1].signature =
                          [len |-> 64, key |-> public_key_bytes(w), msg |-> hash(built)]
                    /\ builder' = None]_vars

C21_Witness ==
    /\ builder = None
    /\ bundle # None
    /\ bundle[1].signature.len = 64
    /\ bundle[1].signature.msg = hash(bundle[1])
    /\ bundle[1].max_gas = 400000
    /\ Len(bundle[1].operations) = 2
    /\ bundle[1].operations[2].kind = "Swap"

(***************************************************************************)
(* wallet.rs and keypair.rs: secret keys as hex strings and key files.     *)
(***************************************************************************)
\* str::trim: without leading and trailing whitespace
trim(s) ==
    LET inner == {i \in 1..Len(s) : s[i] \notin {" ", "\n", "\t", "\r"}}
    IN  IF inner = {} THEN <<>>
        ELSE SubSeq(s, CHOOSE i \in inner : \A j \in inner : i <= j,
                       CHOOSE i \in inner : \A j \in inner : i >= j)

\* WalletError and KeypairError: Io, Format and Hex, and no error
KeyError(kind, text, got) == [kind |-> kind, text |-> text, got |-> got]

KeyOk(w) == [ok |-> TRUE, val |-> Some(w), err |-> KeyError("None", "", 0)]

KeyErr(e) == [ok |-> FALSE, val |-> None, err |-> e]

\* a decoded length other than 32 is accepted
from_secret_hex_any_length(hex_str) ==
    LET bytes == hex_decode(trim(hex_str)) IN
    IF ~bytes.ok THEN KeyErr(KeyError("Hex", bytes.err, 0))
    ELSE KeyOk([signing_key |-> bytes.val])

\* WalletKeypair::from_secret_hex
from_secret_hex(hex_str) ==
    LET bytes == hex_decode(trim(hex_str)) IN
    IF ~bytes.ok THEN KeyErr(KeyError("Hex", bytes.err, 0))
    ELSE IF Len(bytes.val) # AddressLen
    THEN KeyErr(KeyError("Format", "Expected 32 bytes, got {}", Len(bytes.val)))
    ELSE KeyOk([signing_key |-> bytes.val])

\* WalletKeypair::load and ValidatorKeypair::load of a file's contents, if the
\* file can be read
Keypair_load(contents) ==
    IF contents = None THEN KeyErr(KeyError("Io", "read_to_string", 0))
    ELSE from_secret_hex(contents[1])

\* the secret written in uppercase hex
Keypair_save_uppercase(w) ==
    [i \in 1..(2 * Len(w.signing_key)) |->
        IF i % 2 = 1 THEN HexUpper[(w.signing_key[(i + 1) \div 2] \div 16) + 1]
                     ELSE HexUpper[(w.signing_key[i \div 2] % 16) + 1]]

\* WalletKeypair::save and ValidatorKeypair::save: the contents written
Keypair_save(w) == hex_encode(w.signing_key)

\* WalletKeypair::vx0_address
vx0_address(w) == vx0_from_pubkey(public_key_bytes(w))

\* WalletKeypair::hex_address: "0x" and the bytes the Vx0 string decodes to
hex_address(w) ==
    <<"0","x">> \o hex_encode(vx0_to_bytes(vx0_address(w)).val)

\* ValidatorKeypair::address
ValidatorKeypair_address(w) == public_key_bytes(w)

InitKey ==
    /\ builder = None
    /\ bundle = None
    /\ result = None
    /\ parse_in \in
          {l \o Body(c1, c2, n) \o r :
              l \in {<<>>, <<" ">>}, r \in {<<>>, <<"\n">>, <<" ", "\n">>},
              c1 \in {"0", "7", "a", "F", "g", " "}, c2 \in {"0", "7", "a", "F", "g", " "},
              n \in {0, 62, 63, 64, 66}}
    /\ parsed = None

\* from_secret_hex of the string, or load of a file that holds it or is missing
FromSecretHex ==
    /\ parsed = None
    /\ \E r \in {from_secret_hex(parse_in), Keypair_load(Some(parse_in)),
                 Keypair_load(None)} :
          parsed' = Some([kp |-> r, file |-> None, loaded |-> None, sender |-> None])
    /\ UNCHANGED <<builder, bundle, result, parse_in>>

\* save: the write succeeds or fails with Io and leaves no file
Save ==
    /\ parsed # None
    /\ parsed[1].kp.ok
    /\ parsed[1].file = None
    /\ parsed[1].loaded = None
    /\ \E written \in BOOLEAN :
          parsed' = Some([parsed[1] EXCEPT
                             !.file = IF written
                                      THEN Some(Keypair_save(parsed[1].kp.val[1]))
                                      ELSE None,
                             !.loaded = IF written THEN None
                                        ELSE Some(KeyErr(KeyError("Io", "write", 0)))])
    /\ UNCHANGED <<builder, bundle, result, parse_in>>

Load ==
    /\ parsed # None
    /\ parsed[1].file # None
    /\ parsed[1].loaded = None
    /\ parsed' = Some([parsed[1] EXCEPT !.loaded = Some(Keypair_load(parsed[1].file))])
    /\ UNCHANGED <<builder, bundle, result, parse_in>>

\* the sender WalletClient::transfer and DexClient derive from the wallet
HexAddress ==
    /\ parsed # None
    /\ parsed[1].kp.ok
    /\ parsed[1].sender = None
    /\ parsed' = Some([parsed[1] EXCEPT !.sender = Some(hex_address(parsed[1].kp.val[1]))])
    /\ UNCHANGED <<builder, bundle, result, parse_in>>

SpecKey == InitKey /\ [][FromSecretHex \/ Save \/ Load \/ HexAddress]_vars

\* C22: loading a keypair from a hex secret succeeds exactly when the trimmed
\* string hex-decodes to 32 bytes; malformed hex fails with Hex, another
\* decoded length with Format, and a failure constructs no keypair.
C22_SecretHexErrors ==
    (parsed # None /\ parsed[1].file = None /\ parsed[1].loaded = None
        /\ parsed[1].kp.err.kind # "Io") =>
       LET t == trim(parse_in)
           wellformed == Len(t) % 2 = 0 /\ \A i \in 1..Len(t) : IsHexDigit(t[i])
           r == parsed[1].kp
       IN  /\ r.ok <=> (wellformed /\ Len(t) = 64)
           /\ r.ok => (r.val # None /\ Len(r.val[1].signing_key) = 32)
           /\ ~wellformed => (r.err.kind = "Hex" /\ r.val = None)
           /\ (wellformed /\ Len(t) # 64)
                 => (r.err.kind = "Format" /\ r.err.got = Len(t) \div 2 /\ r.val = None)

C22_Witness ==
    /\ parsed # None
    /\ parse_in = <<" ">> \o Body("a", "F", 62) \o <<" ", "\n">>
    /\ parsed[1].kp.err = KeyError("Format", "Expected 32 bytes, got {}", 31)

\* C23: a saved keypair loaded back, and from_secret_hex of the hex of its
\* secret, have the public key bytes and the human-facing address of the
\* original; the saved content is exactly 64 lowercase hex characters.
C23_SaveLoadRoundTrip ==
    (parsed # None /\ parsed[1].file # None /\ parsed[1].loaded # None) =>
       LET k == parsed[1].kp.val[1]
           content == parsed[1].file[1]
           l == parsed[1].loaded[1]
           h == from_secret_hex(hex_encode(k.signing_key))
       IN  /\ Len(content) = 64
           /\ IsLowerHex(content)
           /\ l.ok /\ h.ok
           /\ public_key_bytes(l.val[1]) = public_key_bytes(k)
           /\ public_key_bytes(h.val[1]) = public_key_bytes(k)
           /\ vx0_address(l.val[1]) = vx0_address(k)
           /\ vx0_address(h.val[1]) = vx0_address(k)

C23_Witness ==
    /\ parsed # None
    /\ parse_in = Body("a", "F", 64) \o <<"\n">>
    /\ parsed[1].file = Some(Body("a", "f", 64))
    /\ parsed[1].loaded # None
    /\ parsed[1].loaded[1].ok
    /\ public_key_bytes(parsed[1].loaded[1].val[1]) = Rep(14, 32)

\* C24: the canonical Address of a keypair is its public key bytes unmodified:
\* ValidatorKeypair::address() is public_key_bytes(), and the Address that
\* WalletKeypair::hex_address() denotes is the wallet's 32 public key bytes.
C24_AddressIsPublicKey ==
    (parsed # None /\ parsed[1].sender # None) =>
       LET k == parsed[1].kp.val[1]
       IN  /\ ValidatorKeypair_address(k) = public_key_bytes(k)
           /\ parse_address(parsed[1].sender[1]).ok
           /\ parse_address(parsed[1].sender[1]).val = public_key_bytes(k)

(***************************************************************************)
(* dex.rs and wallet_client.rs: the convenience calls.  A u128 is a        *)
(* sequence of base-10000 digits, least significant first, without leading *)
(* zero digits.                                                            *)
(***************************************************************************)
RECURSIVE U128Norm(_)
U128Norm(x) ==
    IF x # <<>> /\ x[Len(x)] = 0 THEN U128Norm(SubSeq(x, 1, Len(x) - 1)) ELSE x

\* x <= y
RECURSIVE U128Leq(_, _)
U128Leq(x, y) ==
    IF Len(x) # Len(y) THEN Len(x) < Len(y)
    ELSE IF x = <<>> THEN TRUE
    ELSE IF x[Len(x)] # y[Len(y)] THEN x[Len(x)] < y[Len(y)]
    ELSE U128Leq(SubSeq(x, 1, Len(x) - 1), SubSeq(y, 1, Len(y) - 1))

\* 2^128 = 340282366920938463463374607431768211456
TwoPow128 == <<1456, 6821, 4317, 4607, 6337, 4634, 938, 6692, 2823, 340>>

\* str::parse::<u128>().unwrap_or(0) of a decimal string
parse_u128(str) ==
    LET DigitVal(c) == CASE c = "0" -> 0 [] c = "1" -> 1 [] c = "2" -> 2 [] c = "3" -> 3
                         [] c = "4" -> 4 [] c = "5" -> 5 [] c = "6" -> 6 [] c = "7" -> 7
                         [] c = "8" -> 8 [] c = "9" -> 9 [] OTHER -> -1
        digits == IF str # <<>> /\ str[1] = "+" THEN Tail(str) ELSE str
        n == Len(digits)
        At(k) == IF k >= 1 THEN DigitVal(digits[k]) ELSE 0
        limbs == U128Norm([i \in 1..((n + 3) \div 4) |->
                             1000 * At(n - 4 * i + 1) + 100 * At(n - 4 * i + 2)
                                + 10 * At(n - 4 * i + 3) + At(n - 4 * i + 4)])
    IN  IF digits = <<>> \/ \E k \in 1..n : DigitVal(digits[k]) < 0 THEN <<>>
        ELSE IF U128Leq(TwoPow128, limbs) THEN <<>>
        ELSE limbs

\* the outcomes of estimated_out * (10_000 - slippage_bps as u128) / 10_000 in
\* u128: exact; or, on underflow of the subtraction or overflow of the product,
\* a panic (overflow checks on) or the wrapped value (overflow checks off)
swap_min_out(estimated_out, slippage_bps) ==
    LET RECURSIVE Mul(_, _, _)
        Mul(x, m, c) ==
            IF x = <<>> THEN (IF c = 0 THEN <<>> ELSE <<c % 10000>> \o Mul(<<>>, m, c \div 10000))
            ELSE <<(x[1] * m + c) % 10000>> \o Mul(Tail(x), m, (x[1] * m + c) \div 10000)
        Scale(x, m) == U128Norm(Mul(x, m, 0))
        At(x, i) == IF i <= Len(x) THEN x[i] ELSE 0
        RECURSIVE Sub(_, _, _, _)
        Sub(x, y, i, b) ==
            IF i > Len(x) THEN <<>>
            ELSE <<(x[i] - At(y, i) - b + 10000) % 10000>>
                    \o Sub(x, y, i + 1, IF x[i] - At(y, i) - b < 0 THEN 1 ELSE 0)
        Minus(x, y) == U128Norm(Sub(x, y, 1, 0))
        RECURSIVE Wrap(_, _)
        Wrap(x, k) ==
            IF k = 0 THEN x
            ELSE IF U128Leq(Scale(TwoPow128, k), x)
            THEN Wrap(Minus(x, Scale(TwoPow128, k)), k \div 2)
            ELSE Wrap(x, k \div 2)
        Div10000(x) == IF x = <<>> THEN <<>> ELSE Tail(x)
        underflow == slippage_bps > 10000
        product == Scale(estimated_out, 10000 - slippage_bps)
        overflow == ~underflow /\ U128Leq(TwoPow128, product)
        negated == Wrap(Scale(estimated_out, slippage_bps - 10000), 65536)
        wrapped == IF underflow
                   THEN (IF negated = <<>> THEN <<>> ELSE Minus(TwoPow128, negated))
                   ELSE Wrap(product, 65536)
    IN  IF underflow \/ overflow
        THEN {[panic |-> TRUE, wrapped |-> TRUE, min_out |-> <<>>],
              [panic |-> FALSE, wrapped |-> TRUE, min_out |-> Div10000(wrapped)]}
        ELSE {[panic |-> FALSE, wrapped |-> FALSE, min_out |-> Div10000(product)]}

\* get_nonce: u64::from_str_radix(hex_str.trim_start_matches("0x"), 16).unwrap_or(0)
RECURSIVE get_nonce(_)
get_nonce(reply) ==
    LET RECURSIVE Radix16(_, _)
        Radix16(digits, acc) ==
            IF digits = <<>> THEN acc
            ELSE Radix16(Tail(digits), 16 * acc + HexVal(digits[1]))
    IN  IF starts_with(reply, <<"0", "x">>) THEN get_nonce(SubSeq(reply, 3, Len(reply)))
        ELSE IF reply = <<>> \/ \E i \in 1..Len(reply) : ~IsHexDigit(reply[i]) THEN 0
        ELSE Radix16(reply, 0)

InitClient ==
    /\ builder = None
    /\ bundle = None
    /\ result = None
    /\ parse_in \in
          [call : {"transfer"}, wallet : Wallets, a : {Hex32(2), ShortHex},
           b : {vxs, BadHex}, bps : {0}]
          \cup [call : {"create_pool", "add_liquidity", "remove_liquidity"}, wallet : Wallets, a : {vxs, BadHex},
                b : {Hex32(2), ShortHex}, bps : {50}]
          \cup [call : {"swap"}, wallet : Wallets, a : {vxs, BadHex},
                b : {Hex32(2)}, bps : {0, 50, 10000, 10001, 65535}]
    /\ parsed = [pc |-> "called", log |-> <<>>, rpc |-> <<>>, reply |-> <<>>,
                 arith |-> None, failed |-> ""]

\* get_nonce or quote_swap: one RPC that fails, or answers with a transaction
\* count or with a quote whose amount_out is a string
QueryNode ==
    /\ parsed.pc = "called"
    /\ parse_in.call \in {"transfer", "swap"}
    /\ \E answered \in BOOLEAN :
       \E r \in IF parse_in.call = "transfer"
                THEN {<<"0", "x", "0">>, <<"0", "x", "5">>, <<"0", "x", "0", "x", "a">>,
                      <<"z">>}
                ELSE {<<"1", "0", "0", "0">>, <<"0">>, <<"a", "b", "c">>,
                      <<"3","4","0","2","8","2","3","6","6","9","2","0","9","3","8",
                        "4","6","3","4","6","3","3","7","4","6","0","7","4","3","1",
                        "7","6","8","2","1","1","4","5","5">>,
                      <<"3","4","0","2","8","2","3","6","6","9","2","0","9","3","8",
                        "4","6","3","4","6","3","3","7","4","6","0","7","4","3","1",
                        "7","6","8","2","2">>} :
          parsed' = [parsed EXCEPT
                        !.pc = IF answered THEN "queried" ELSE "returned",
                        !.log = Append(@, "query"),
                        !.rpc = Append(@, IF parse_in.call = "transfer"
                                          THEN "eth_getTransactionCount"
                                          ELSE "vex_quoteSwap"),
                        !.reply = IF answered THEN r ELSE <<>>,
                        !.failed = IF answered THEN "" ELSE "query"]
    /\ UNCHANGED <<builder, bundle, result, parse_in>>

\* the arithmetic of swap, then BundleBuilder::new and the operation
BuildCall ==
    LET \* the builder chain of the call, up to sign; min_out is a u128 in digits
        BuilderChain(c, reply, min_out) ==
            LET new == BundleBuilder_new(hex_address(c.wallet), 1000) IN
            IF ~new.ok THEN new
            ELSE CASE c.call = "transfer" ->
                        LET r == transfer(new.val[1], c.a, c.b, 1000000000) IN
                        IF ~r.ok THEN r
                        ELSE BOk(valid_for(nonce(r.val[1], get_nonce(reply)), 3600, 1000))
                   [] c.call = "swap" -> swap(new.val[1], c.a, c.b, 1000, min_out)
                   [] c.call = "create_pool" -> create_pool(new.val[1], c.a, c.b, 1000, 1000, 60)
                   [] c.call = "add_liquidity" -> add_liquidity(new.val[1], c.a, c.b, 1000, 1000, 0)
                   [] c.call = "remove_liquidity" -> remove_liquidity(new.val[1], c.a, c.b, 1000, 0, 0)
    IN
    /\ \/ parsed.pc = "queried"
       \/ parsed.pc = "called" /\ parse_in.call \notin {"transfer", "swap"}
    /\ \E o \in IF parse_in.call = "swap"
                THEN swap_min_out(parse_u128(parsed.reply), parse_in.bps)
                ELSE {[panic |-> FALSE, wrapped |-> FALSE, min_out |-> <<>>]} :
          IF o.panic
          THEN /\ parsed' = [parsed EXCEPT !.pc = "panicked", !.arith = Some(o)]
               /\ UNCHANGED <<builder, result>>
          ELSE LET r == BuilderChain(parse_in, parsed.reply, o.min_out) IN
               /\ builder' = r.val
               /\ result' = r.err
               /\ parsed' = [parsed EXCEPT
                                !.pc = IF r.ok THEN "built" ELSE "returned",
                                !.log = Append(@, "build"),
                                !.arith = IF parse_in.call = "swap" THEN Some(o) ELSE None,
                                !.failed = IF r.ok THEN "" ELSE "build"]
    /\ UNCHANGED <<bundle, parse_in>>

SignCall ==
    /\ parsed.pc = "built"
    /\ bundle' = Some(BundleBuilder_sign(builder[1], parse_in.wallet))
    /\ builder' = None
    /\ parsed' = [parsed EXCEPT !.pc = "signed", !.log = Append(@, "sign")]
    /\ UNCHANGED <<result, parse_in>>

\* submit_bundle: one vex_submitBundle RPC, whose result the call returns
submit_bundle ==
    /\ parsed.pc = "signed"
    /\ \E accepted \in BOOLEAN :
          parsed' = [parsed EXCEPT
                        !.pc = "returned",
                        !.log = Append(@, "submit"),
                        !.rpc = Append(@, "vex_submitBundle"),
                        !.failed = IF accepted THEN "" ELSE "submit"]
    /\ UNCHANGED <<builder, bundle, result, parse_in>>

SpecClient == InitClient /\ [][QueryNode \/ BuildCall \/ SignCall \/ submit_bundle]_vars

IsPrefix(s, t) == Len(s) <= Len(t) /\ s = SubSeq(t, 1, Len(s))

Submissions == Cardinality({i \in 1..Len(parsed.rpc) : parsed.rpc[i] = "vex_submitBundle"})

\* C25: every convenience call runs query, build, sign, submit in
\* that order; vex_submitBundle is invoked at most once, never again after a
\* failure, and not at all when the query or the build failed
C25_QueryBuildSignSubmit ==
    /\ IsPrefix(parsed.log, <<"query", "build", "sign", "submit">>)
    /\ Submissions <= 1
    /\ parsed.failed \in {"query", "build"} => Submissions = 0

\* C29: in swap the minimum output is computed without unsigned underflow or
\* overflow and is at most the quoted output, for every quoted amount and
\* every slippage_bps
C29_MinOutWithinQuote ==
    parsed.arith # None =>
        /\ ~parsed.arith[1].wrapped
        /\ ~parsed.arith[1].panic
        /\ U128Leq(parsed.arith[1].min_out, parse_u128(parsed.reply))

\* C28: after any sequence of builder calls, a built bundle that contains a
\* CreatePool operation has max gas of at least 300000, and one that contains
\* an AddLiquidity or RemoveLiquidity operation has max gas of at least 150000
C28_BuiltBundleGasFloors ==
    bundle # None =>
        /\ HasKind(bundle[1].operations, "CreatePool") =>
              bundle[1].max_gas >= CreatePoolGasFloor
        /\ (HasKind(bundle[1].operations, "AddLiquidity")
               \/ HasKind(bundle[1].operations, "RemoveLiquidity")) =>
              bundle[1].max_gas >= LiquidityGasFloor

(***************************************************************************)
(* intent.rs: IntentBuilder.  A goal is a record [kind, a, b, n, s, goals].*)
(* builder holds the IntentBuilder, parse_in the goal of the most recent   *)
(* goal-setting call, result what build returned, parsed what to_json      *)
(* returned.                                                               *)
(***************************************************************************)
Goal(kind, a, b, n, s, goals) ==
    [kind |-> kind, a |-> a, b |-> b, n |-> n, s |-> s, goals |-> goals]

IntentError(kind, arg) == [kind |-> kind, arg |-> arg]

\* rejects a slippage of 100 as well
IntentBuilder_build_below_100(self) ==
    IF self.goal = None THEN BErr(IntentError("NoGoal", 0))
    ELSE IF self.constraints.max_slippage # None /\ self.constraints.max_slippage[1] >= 100
    THEN BErr(IntentError("InvalidSlippage", self.constraints.max_slippage[1]))
    ELSE BOk(<<self.goal[1], self.constraints>>)

\* IntentBuilder::build
IntentBuilder_build(self) ==
    IF self.goal = None THEN BErr(IntentError("NoGoal", 0))
    ELSE IF self.constraints.max_slippage # None /\ self.constraints.max_slippage[1] > 100
    THEN BErr(IntentError("InvalidSlippage", self.constraints.max_slippage[1]))
    ELSE BOk(<<self.goal[1], self.constraints>>)

\* IntentBuilder::to_json: the json! object of the goal and the constraints
to_json(self) ==
    IF self.goal = None THEN BErr(IntentError("NoGoal", 0))
    ELSE BOk([goal |-> self.goal[1], constraints |-> self.constraints])

\* IntentBuilder::new, with Constraints::default()
IntentNew ==
    /\ builder = None
    /\ result = None
    /\ builder' = Some([goal |-> None,
                        constraints |-> [max_slippage |-> None, deadline |-> None,
                                         min_output |-> None, preferred_route |-> <<>>,
                                         sponsored_gas |-> FALSE],
                        from |-> None])
    /\ UNCHANGED <<bundle, result, parse_in, parsed>>

\* swap, stake, provide_liquidity, custom, composite: each assigns the goal
GoalCall ==
    /\ builder # None
    /\ parsed = None
    /\ \E g \in {Goal("Swap", ZERO, Rep(1, AddressLen), <<100>>, <<>>, <<>>),
                 Goal("Stake", ZERO, None, <<1000>>, <<>>, <<>>),
                 Goal("Stake", ZERO, Some(Rep(2, AddressLen)), <<1000>>, <<>>, <<>>),
                 Goal("ProvideLiquidity", ZERO, Rep(1, AddressLen), <<100, 500>>, <<>>, <<>>),
                 Goal("Custom", <<>>, <<>>, <<>>, <<<<"d", "o">>>>, <<>>),
                 Goal("Composite", <<>>, <<>>, <<>>, <<>>,
                      <<Goal("Swap", ZERO, Rep(1, AddressLen), <<100>>, <<>>, <<>>),
                        Goal("Stake", ZERO, None, <<50>>, <<>>, <<>>)>>)} :
          /\ builder' = Some([builder[1] EXCEPT !.goal = Some(g)])
          /\ parse_in' = Some(g)
    /\ UNCHANGED <<bundle, result, parsed>>

\* with_slippage (a u8), with_deadline, with_min_output, prefer_dex, sponsored,
\* from_account: each assigns its own field
ConstraintCall ==
    /\ builder # None
    /\ parsed = None
    /\ \/ \E pct \in {0, 100, 101, 255} :
             builder' = Some([builder[1] EXCEPT !.constraints.max_slippage = Some(pct)])
       \/ builder' = Some([builder[1] EXCEPT !.constraints.deadline = Some(1700000000)])
       \/ builder' = Some([builder[1] EXCEPT !.constraints.min_output = Some(90)])
       \/ builder' = Some([builder[1] EXCEPT
                              !.constraints.preferred_route = <<Rep(3, AddressLen)>>])
       \/ builder' = Some([builder[1] EXCEPT !.constraints.sponsored_gas = TRUE])
       \/ builder' = Some([builder[1] EXCEPT !.from = Some(Rep(1, AddressLen))])
    /\ UNCHANGED <<bundle, result, parse_in, parsed>>

\* build takes the builder by value
IntentBuild ==
    /\ builder # None
    /\ result' = Some(IntentBuilder_build(builder[1]))
    /\ builder' = None
    /\ UNCHANGED <<bundle, parse_in, parsed>>

\* to_json borrows the builder
ToJson ==
    /\ builder # None
    /\ parsed = None
    /\ parsed' = Some(to_json(builder[1]))
    /\ UNCHANGED <<builder, bundle, result, parse_in>>

SpecIntent == Init /\ [][IntentNew \/ GoalCall \/ ConstraintCall \/ IntentBuild \/ ToJson]_vars

\* C26: build returns NoGoal when no goal-setting call was made, returns
\* InvalidSlippage(s) when a goal is set and the maximum slippage s exceeds
\* 100, and otherwise returns the goal of the most recent goal-setting call
\* with the accumulated constraints
C26_BuildOutcome ==
    [][IntentBuild =>
          LET s == builder[1].constraints.max_slippage IN
          IF parse_in = <<>> THEN result' = Some(BErr(IntentError("NoGoal", 0)))
          ELSE IF s # None /\ s[1] > 100
          THEN result' = Some(BErr(IntentError("InvalidSlippage", s[1])))
          ELSE /\ result'[1].ok
               /\ result'[1].val[1][1] = parse_in[1]
               /\ result'[1].val[1][2] = builder[1].constraints]_vars

C26_Witness ==
    /\ builder = None
    /\ result # None
    /\ result[1].ok
    /\ result[1].val[1][1].kind = "Stake"
    /\ result[1].val[1][2].max_slippage = Some(100)
    /\ result[1].val[1][2].sponsored_gas
    /\ result[1].val[1][2].deadline = Some(1700000000)

\* C30: to_json returns an error whenever build would return an error (no
\* goal set, or maximum slippage above 100)
C30_ToJsonAgreesWithBuild ==
    [][ToJson => (~IntentBuilder_build(builder[1]).ok => ~parsed'[1].ok)]_vars

(***************************************************************************)
(* intent_parser.rs: parse_intent.  A text is a sequence of characters; an *)
(* amount is a u128 in digits; blake3 is a toy digest, one byte value per  *)
(* identifier.  The f64 product amount * 1e9 is computed in decimal.       *)
(***************************************************************************)
Constraints_default ==
    [max_slippage |-> None, deadline |-> None, min_output |-> None,
     preferred_route |-> <<>>, sponsored_gas |-> FALSE]

Letters ==
    [lower |-> <<"a", "b", "c", "d", "e", "f", "g", "h", "i", "j", "k", "l", "m", "n", "o", "p", "q", "r", "s", "t", "u", "v", "w", "x", "y", "z">>,
     upper |-> <<"A", "B", "C", "D", "E", "F", "G", "H", "I", "J", "K", "L", "M", "N", "O", "P", "Q", "R", "S", "T", "U", "V", "W", "X", "Y", "Z">>]

\* str::to_lowercase
to_lowercase(s) ==
    [i \in 1..Len(s) |->
        IF \E k \in 1..26 : Letters.upper[k] = s[i]
        THEN Letters.lower[CHOOSE k \in 1..26 : Letters.upper[k] = s[i]] ELSE s[i]]

\* str::to_uppercase
to_uppercase(s) ==
    [i \in 1..Len(s) |->
        IF \E k \in 1..26 : Letters.lower[k] = s[i]
        THEN Letters.upper[CHOOSE k \in 1..26 : Letters.lower[k] = s[i]] ELSE s[i]]

\* Regex::captures of the patterns the parsers use: the capture groups of the
\* leftmost match, or None.  A pattern is a sequence of elements: a literal,
\* an alternative of literals, \s+ (ws), \s* (ws0), (\d+\.?\d*) (num),
\* (\d+) (digits), (\w+) (word), (\S+) (nonws), an optional literal and an
\* optional group.  Every class run is followed by a character outside the
\* class, so the greedy match is the longest run.
captures(pattern, text) ==
    LET n == Len(text)
        IsDigit(c) == c \in {"0", "1", "2", "3", "4", "5", "6", "7", "8", "9"}
        IsSpace(c) == c \in {" ", "\t", "\n", "\r"}
        InClass(t, c) ==
            CASE t = "ws" -> IsSpace(c)
              [] t = "digits" -> IsDigit(c)
              [] t = "word" -> IsDigit(c) \/ c = "_"
                                  \/ \E k \in 1..26 : Letters.lower[k] = c \/ Letters.upper[k] = c
              [] t = "nonws" -> ~IsSpace(c)
        RECURSIVE RunEnd(_, _)
        RunEnd(t, pos) ==
            IF pos <= n /\ InClass(t, text[pos]) THEN RunEnd(t, pos + 1) ELSE pos
        LitAt(lit, pos) ==
            pos + Len(lit) - 1 <= n /\ SubSeq(text, pos, pos + Len(lit) - 1) = lit
        Groups(pat) == Cardinality({k \in 1..Len(pat) :
                           pat[k].t \in {"num", "digits", "word", "nonws"}})
        RECURSIVE MatchAt(_, _, _)
        MatchAt(pat, pos, caps) ==
            IF pat = <<>> THEN <<[end |-> pos, caps |-> caps]>>
            ELSE LET e == Head(pat)
                     rest == Tail(pat)
                 IN  CASE e.t = "lit" ->
                            IF LitAt(e.lit, pos) THEN MatchAt(rest, pos + Len(e.lit), caps)
                            ELSE <<>>
                       [] e.t = "alt" ->
                            LET hits == {k \in 1..Len(e.sub) :
                                            /\ LitAt(e.sub[k], pos)
                                            /\ MatchAt(rest, pos + Len(e.sub[k]), caps) # <<>>}
                            IN  IF hits = {} THEN <<>>
                                ELSE MatchAt(rest,
                                             pos + Len(e.sub[CHOOSE k \in hits :
                                                               \A j \in hits : k <= j]),
                                             caps)
                       [] e.t = "ws" ->
                            IF RunEnd("ws", pos) = pos THEN <<>>
                            ELSE MatchAt(rest, RunEnd("ws", pos), caps)
                       [] e.t = "ws0" -> MatchAt(rest, RunEnd("ws", pos), caps)
                       [] e.t \in {"digits", "word", "nonws"} ->
                            IF RunEnd(e.t, pos) = pos THEN <<>>
                            ELSE MatchAt(rest, RunEnd(e.t, pos),
                                         Append(caps, Some(SubSeq(text, pos,
                                                                  RunEnd(e.t, pos) - 1))))
                       [] e.t = "num" ->
                            LET d1 == RunEnd("digits", pos)
                                d2 == IF d1 <= n /\ text[d1] = "." THEN d1 + 1 ELSE d1
                                d3 == RunEnd("digits", d2)
                            IN  IF d1 = pos THEN <<>>
                                ELSE MatchAt(rest, d3,
                                             Append(caps, Some(SubSeq(text, pos, d3 - 1))))
                       [] e.t = "optlit" ->
                            IF LitAt(e.lit, pos) THEN MatchAt(rest, pos + Len(e.lit), caps)
                            ELSE MatchAt(rest, pos, caps)
                       [] e.t = "opt" ->
                            LET m == MatchAt(e.sub, pos, caps)
                            IN  IF m # <<>> THEN MatchAt(rest, m[1].end, m[1].caps)
                                ELSE MatchAt(rest, pos,
                                             caps \o [k \in 1..Groups(e.sub) |-> None])
        starts == {p \in 1..(n + 1) : MatchAt(pattern, p, <<>>) # <<>>}
    IN  IF starts = {} THEN None
        ELSE Some(MatchAt(pattern, CHOOSE p \in starts : \A q \in starts : p <= q,
                          <<>>)[1].caps)

\* the six try_parse_* functions, by the name of the pattern
try_parse(kind, text) ==
    LET Lit(l) == [t |-> "lit", lit |-> l, sub |-> <<>>]
        Alt(ls) == [t |-> "alt", lit |-> <<>>, sub |-> ls]
        El(t) == [t |-> t, lit |-> <<>>, sub |-> <<>>]
        Ws == El("ws")
        Num == El("num")
        Word == El("word")
        blake3_mint(b) == Rep(b, AddressLen)
        resolve_token(symbol) ==
            LET u == to_uppercase(symbol) IN
            CASE u \in {<<"V", "X", "S">>, <<"V", "E", "X", "I", "D", "U", "S">>} -> Some(ZERO)
              [] u = <<"U", "S", "D", "C">> -> Some(blake3_mint(101))
              [] u = <<"U", "S", "D", "T">> -> Some(blake3_mint(102))
              [] u = <<"S", "O", "L">> -> Some(blake3_mint(103))
              [] u \in {<<"E", "T", "H">>, <<"W", "E", "T", "H">>} -> Some(blake3_mint(104))
              [] u \in {<<"B", "T", "C">>, <<"W", "B", "T", "C">>} -> Some(blake3_mint(105))
              [] u = <<"V", "X", "U", "S", "D">> -> Some(blake3_mint(106))
              [] u = <<"V", "X", "B", "T", "C">> -> Some(blake3_mint(107))
              [] u = <<"V", "X", "E", "T", "H">> -> Some(blake3_mint(108))
              [] u = <<"V", "X", "A", "I">> -> Some(blake3_mint(109))
              [] u = <<"V", "M", "E", "M", "E">> -> Some(blake3_mint(110))
              [] OTHER -> None
        resolve_chain(name) ==
            LET l == to_lowercase(name) IN
            CASE l \in {<<"s", "o", "l", "a", "n", "a">>, <<"s", "o", "l">>} -> Some(<<"s", "o", "l", "a", "n", "a">>)
              [] l \in {<<"e", "t", "h", "e", "r", "e", "u", "m">>, <<"e", "t", "h">>} -> Some(<<"e", "t", "h", "e", "r", "e", "u", "m">>)
              [] l \in {<<"b", "i", "t", "c", "o", "i", "n">>, <<"b", "t", "c">>} -> Some(<<"b", "i", "t", "c", "o", "i", "n">>)
              [] l \in {<<"p", "o", "l", "y", "g", "o", "n">>, <<"m", "a", "t", "i", "c">>} -> Some(<<"p", "o", "l", "y", "g", "o", "n">>)
              [] l \in {<<"b", "s", "c">>, <<"b", "n", "b">>} -> Some(<<"b", "s", "c">>)
              [] l = <<"b", "a", "s", "e">> -> Some(<<"b", "a", "s", "e">>)
              [] l \in {<<"a", "r", "b", "i", "t", "r", "u", "m">>, <<"a", "r", "b">>} -> Some(<<"a", "r", "b", "i", "t", "r", "u", "m">>)
              [] OTHER -> None
        \* (amount * 1_000_000_000.0) as u128
        raw_amount(amount_str) ==
            LET dots == {i \in 1..Len(amount_str) : amount_str[i] = "."}
                dot == IF dots = {} THEN Len(amount_str) + 1 ELSE CHOOSE i \in dots : TRUE
                frac == SubSeq(amount_str, dot + 1, Len(amount_str))
            IN  parse_u128(SubSeq(amount_str, 1, dot - 1)
                              \o [i \in 1..9 |-> IF i <= Len(frac) THEN frac[i] ELSE "0"])
        \* str::parse::<u8>().ok() of a run of digits
        parse_u8(str) ==
            LET v == parse_u128(str) IN
            IF Len(v) = 0 /\ \A p \in 1..Len(str) : str[p] = "0" THEN Some(0)
            ELSE IF Len(v) = 1 /\ v[1] <= 255 THEN Some(v[1])
            ELSE None
        contains(needle) ==
            \E p \in 1..Len(text) :
                p + Len(needle) - 1 <= Len(text)
                   /\ SubSeq(text, p, p + Len(needle) - 1) = needle
        Parsed(goal, constraints) == Some([goal |-> goal, constraints |-> constraints])
    IN  CASE kind = "swap" ->
               LET caps == captures(<<Lit(<<"s", "w", "a", "p">>), Ws, Num, Ws, Word, Ws, Lit(<<"f", "o", "r">>), Ws, Word,
                                      [t |-> "opt", lit |-> <<>>,
                                       sub |-> <<Ws, Lit(<<"w", "i", "t", "h">>), Ws, El("digits"),
                                                 [t |-> "optlit", lit |-> <<"%">>, sub |-> <<>>],
                                                 El("ws0"), Lit(<<"s", "l", "i", "p", "p", "a", "g", "e">>)>>]>>, text)
               IN  IF caps = None THEN None
                   ELSE LET c == caps[1]
                            slippage == IF c[4] = None THEN None ELSE parse_u8(c[4][1])
                            from_token == resolve_token(c[2][1])
                            to_token == resolve_token(c[3][1])
                        IN  IF from_token = None \/ to_token = None THEN None
                            ELSE Parsed(Goal("Swap", from_token[1], to_token[1],
                                             <<raw_amount(c[1][1])>>, <<>>, <<>>),
                                        [Constraints_default EXCEPT !.max_slippage = slippage])
          [] kind = "liquidity" ->
               LET caps == captures(<<Alt(<<<<"a", "d", "d">>, <<"p", "r", "o", "v", "i", "d", "e">>>>), Ws, Num, Ws, Word, Ws,
                                      Lit(<<"a", "n", "d">>), Ws, Num, Ws, Word, Ws, Lit(<<"l", "i", "q", "u", "i", "d", "i", "t", "y">>)>>,
                                    text)
               IN  IF caps = None THEN None
                   ELSE LET c == caps[1]
                            token_a == resolve_token(c[2][1])
                            token_b == resolve_token(c[4][1])
                        IN  IF token_a = None \/ token_b = None THEN None
                            ELSE Parsed(Goal("ProvideLiquidity", token_a[1], token_b[1],
                                             <<raw_amount(c[1][1]), raw_amount(c[3][1])>>,
                                             <<>>, <<>>),
                                        Constraints_default)
          [] kind = "stake" ->
               LET caps == captures(<<Lit(<<"s", "t", "a", "k", "e">>), Ws, Num, Ws, Word,
                                      [t |-> "opt", lit |-> <<>>,
                                       sub |-> <<Ws, Lit(<<"w", "i", "t", "h">>), Ws, Lit(<<"v", "a", "l", "i", "d", "a", "t", "o", "r">>), Ws,
                                                 El("nonws")>>]>>, text)
               IN  IF caps = None THEN None
                   ELSE LET c == caps[1]
                            validator == IF c[3] = None \/ ~parse_address(c[3][1]).ok
                                         THEN None
                                         ELSE Some(parse_address(c[3][1]).val)
                        IN  IF resolve_token(c[2][1]) = None THEN None
                            ELSE Parsed(Goal("Stake", ZERO, validator,
                                             <<raw_amount(c[1][1])>>, <<>>, <<>>),
                                        Constraints_default)
          [] kind = "bridge" ->
               LET caps == captures(<<Lit(<<"b", "r", "i", "d", "g", "e">>), Ws, Num, Ws, Word, Ws, Lit(<<"f", "r", "o", "m">>), Ws,
                                      Word>>, text)
               IN  IF caps = None THEN None
                   ELSE LET c == caps[1]
                            chain == resolve_chain(c[3][1])
                        IN  IF contains(<<" ", "a", "n", "d", " ">>) \/ contains(<<" ", "t", "h", "e", "n", " ">>) THEN None
                            ELSE IF chain = None THEN None
                            ELSE Parsed(Goal("Bridge", <<>>, <<>>, <<raw_amount(c[1][1])>>,
                                             <<chain[1], to_uppercase(c[2][1])>>, <<>>),
                                        Constraints_default)
          [] kind = "bridge_and_action" ->
               LET caps == captures(<<Lit(<<"b", "r", "i", "d", "g", "e">>), Ws, Num, Ws, Word, Ws, Lit(<<"f", "r", "o", "m">>), Ws,
                                      Word, Ws, Alt(<<<<"a", "n", "d">>, <<"t", "h", "e", "n">>>>), Ws, Lit(<<"s", "w", "a", "p">>), Ws,
                                      Alt(<<<<"t", "o">>, <<"f", "o", "r">>>>), Ws, Word>>, text)
               IN  IF caps = None THEN None
                   ELSE LET c == caps[1]
                            chain == resolve_chain(c[3][1])
                            from_token == resolve_token(to_uppercase(c[2][1]))
                            to_token == resolve_token(c[4][1])
                        IN  IF chain = None \/ from_token = None \/ to_token = None THEN None
                            ELSE Parsed(Goal("Composite", <<>>, <<>>, <<>>, <<>>,
                                             <<Goal("Bridge", <<>>, <<>>,
                                                    <<raw_amount(c[1][1])>>,
                                                    <<chain[1], to_uppercase(c[2][1])>>, <<>>),
                                               Goal("Swap", from_token[1], to_token[1],
                                                    <<raw_amount(c[1][1])>>, <<>>, <<>>)>>),
                                        Constraints_default)
          [] kind = "register" ->
               LET caps == captures(<<Lit(<<"r", "e", "g", "i", "s", "t", "e", "r">>), Ws, El("nonws")>>, text)
               IN  IF caps = None THEN None
                   ELSE LET name == caps[1][1][1]
                            suffixed == Len(name) >= 4
                                           /\ SubSeq(name, Len(name) - 3, Len(name)) = <<".", "v", "e", "x">>
                            normalized == IF suffixed THEN SubSeq(name, 1, Len(name) - 4)
                                          ELSE name
                            alnum(ch) == ch \in {"0", "1", "2", "3", "4", "5", "6", "7", "8", "9"}
                                            \/ \E k \in 1..26 : Letters.lower[k] = ch \/ Letters.upper[k] = ch
                        IN  IF Len(normalized) < 3 \/ Len(normalized) > 64 THEN None
                            ELSE IF \E i \in 1..Len(normalized) :
                                       ~(alnum(normalized[i]) \/ normalized[i] = "-")
                            THEN None
                            ELSE IF normalized[1] = "-" \/ normalized[Len(normalized)] = "-"
                            THEN None
                            ELSE Parsed(Goal("Custom", <<>>, <<>>, <<>>,
                                             <<<<"r", "e", "g", "i", "s", "t", "e", "r", "_", "v", "n", "s", ":">> \o normalized>>, <<>>),
                                        Constraints_default)

\* tries stake before swap and liquidity
parse_intent_stake_first(input) ==
    LET text == to_lowercase(trim(input))
        parsers == <<"stake", "swap", "liquidity", "bridge", "bridge_and_action", "register">>
        first_some(tried, custom) ==
            IF tried[1] # None THEN BOk(tried[1][1])
            ELSE IF tried[2] # None THEN BOk(tried[2][1])
            ELSE IF tried[3] # None THEN BOk(tried[3][1])
            ELSE IF tried[4] # None THEN BOk(tried[4][1])
            ELSE IF tried[5] # None THEN BOk(tried[5][1])
            ELSE IF tried[6] # None THEN BOk(tried[6][1])
            ELSE BOk(custom)
    IN  first_some([k \in 1..6 |-> try_parse(parsers[k], text)],
                   [goal |-> Goal("Custom", <<>>, <<>>, <<>>, <<text>>, <<>>),
                    constraints |-> Constraints_default])

\* parse_intent: the parsers are tried in the order of the source, the first
\* Some is returned, and the fallback is Goal::Custom over the normalised text
parse_intent(input) ==
    LET text == to_lowercase(trim(input))
        parsers == <<"swap", "liquidity", "stake", "bridge", "bridge_and_action", "register">>
        first_some(tried, custom) ==
            IF tried[1] # None THEN BOk(tried[1][1])
            ELSE IF tried[2] # None THEN BOk(tried[2][1])
            ELSE IF tried[3] # None THEN BOk(tried[3][1])
            ELSE IF tried[4] # None THEN BOk(tried[4][1])
            ELSE IF tried[5] # None THEN BOk(tried[5][1])
            ELSE IF tried[6] # None THEN BOk(tried[6][1])
            ELSE BOk(custom)
    IN  first_some([k \in 1..6 |-> try_parse(parsers[k], text)],
                   [goal |-> Goal("Custom", <<>>, <<>>, <<>>, <<text>>, <<>>),
                    constraints |-> Constraints_default])

InitParse ==
    /\ builder = None
    /\ bundle = None
    /\ result = None
    /\ parsed = None
    /\ parse_in \in
         {l \o t \o r :
            l \in {<<>>, <<" ", " ">>}, r \in {<<>>, <<"\n">>},
            t \in {
           <<"s", "w", "a", "p", " ", "1", "0", "0", " ", "V", "X", "S", " ", "f", "o", "r",
             " ", "U", "S", "D", "C">>,
           <<"S", "W", "A", "P", " ", "1", "0", " ", "v", "x", "s", " ", "F", "O", "R", " ",
             "u", "s", "d", "c">>,
           <<"s", "w", "a", "p", " ", "5", "0", " ", "E", "T", "H", " ", "f", "o", "r", " ",
             "V", "X", "S", " ", "w", "i", "t", "h", " ", "3", "%", " ", "s", "l", "i", "p",
             "p", "a", "g", "e">>,
           <<"s", "w", "a", "p", " ", "1", ".", "5", " ", "v", "x", "s", " ", "f", "o", "r",
             " ", "s", "o", "l", " ", "w", "i", "t", "h", " ", "1", "0", "1", " ", "s", "l",
             "i", "p", "p", "a", "g", "e">>,
           <<"s", "w", "a", "p", " ", "2", " ", "v", "x", "s", " ", "f", "o", "r", " ", "s",
             "o", "l", " ", "w", "i", "t", "h", " ", "3", "0", "0", "%", " ", "s", "l", "i",
             "p", "p", "a", "g", "e">>,
           <<"s", "w", "a", "p", " ", "1", "0", " ", "D", "O", "G", "W", "I", "F", "H", "A",
             "T", " ", "f", "o", "r", " ", "V", "X", "S">>,
           <<"s", "w", "a", "p", " ", "1", "0", "x", " ", "v", "x", "s", " ", "f", "o", "r",
             " ", "u", "s", "d", "c">>,
           <<"p", "l", "e", "a", "s", "e", " ", "s", "w", "a", "p", " ", "7", " ", "v", "x",
             "s", " ", "f", "o", "r", " ", "u", "s", "d", "t", " ", "n", "o", "w">>,
           <<"s", "w", "a", "p", " ", "1", " ", "v", "x", "s", " ", "f", "o", "r", " ", "u",
             "s", "d", "c", " ", "t", "h", "e", "n", " ", "s", "t", "a", "k", "e", " ", "5",
             " ", "v", "x", "s">>,
           <<"s", "t", "a", "k", "e", " ", "1", "0", "0", "0", " ", "V", "X", "S">>,
           <<"s", "t", "a", "k", "e", " ", "5", " ", "v", "x", "s", " ", "w", "i", "t", "h",
             " ", "v", "a", "l", "i", "d", "a", "t", "o", "r", " ", "0", "x", "0", "2", "0",
             "2", "0", "2", "0", "2", "0", "2", "0", "2", "0", "2", "0", "2", "0", "2", "0",
             "2", "0", "2", "0", "2", "0", "2", "0", "2", "0", "2", "0", "2", "0", "2", "0",
             "2", "0", "2", "0", "2", "0", "2", "0", "2", "0", "2", "0", "2", "0", "2", "0",
             "2", "0", "2", "0", "2", "0", "2", "0", "2", "0", "2", "0", "2">>,
           <<"s", "t", "a", "k", "e", " ", "5", " ", "v", "x", "s", " ", "w", "i", "t", "h",
             " ", "v", "a", "l", "i", "d", "a", "t", "o", "r", " ", "V", "x", "0", "a", "b",
             "c">>,
           <<"s", "t", "a", "k", "e", " ", "5", " ", "d", "o", "g", "e">>,
           <<"s", "t", "a", "k", "e", " ", "5", " ", "v", "x", "s", " ", "a", "n", "d", " ",
             "a", "d", "d", " ", "1", " ", "v", "x", "s", " ", "a", "n", "d", " ", "2", " ",
             "u", "s", "d", "c", " ", "l", "i", "q", "u", "i", "d", "i", "t", "y">>,
           <<"a", "d", "d", " ", "1", "0", "0", " ", "V", "X", "S", " ", "a", "n", "d", " ",
             "5", "0", "0", " ", "U", "S", "D", "C", " ", "l", "i", "q", "u", "i", "d", "i",
             "t", "y">>,
           <<"p", "r", "o", "v", "i", "d", "e", " ", "5", "0", " ", "E", "T", "H", " ", "a",
             "n", "d", " ", "1", "0", "0", "0", " ", "V", "X", "S", " ", "l", "i", "q", "u",
             "i", "d", "i", "t", "y">>,
           <<"a", "d", "d", " ", "1", " ", "v", "x", "s", " ", "a", "n", "d", " ", "2", " ",
             "m", "o", "o", "n", " ", "l", "i", "q", "u", "i", "d", "i", "t", "y">>,
           <<"b", "r", "i", "d", "g", "e", " ", "1", "0", " ", "S", "O", "L", " ", "f", "r",
             "o", "m", " ", "s", "o", "l", "a", "n", "a">>,
           <<"b", "r", "i", "d", "g", "e", " ", "1", "0", " ", "S", "O", "L", " ", "f", "r",
             "o", "m", " ", "n", "e", "p", "t", "u", "n", "e">>,
           <<"b", "r", "i", "d", "g", "e", " ", "1", "0", " ", "S", "O", "L", " ", "f", "r",
             "o", "m", " ", "s", "o", "l", "a", "n", "a", " ", "a", "n", "d", " ", "s", "w",
             "a", "p", " ", "t", "o", " ", "V", "X", "S">>,
           <<"b", "r", "i", "d", "g", "e", " ", "2", " ", "e", "t", "h", " ", "f", "r", "o",
             "m", " ", "e", "t", "h", " ", "t", "h", "e", "n", " ", "s", "w", "a", "p", " ",
             "f", "o", "r", " ", "v", "x", "s">>,
           <<"b", "r", "i", "d", "g", "e", " ", "1", "0", " ", "d", "o", "g", "e", " ", "f",
             "r", "o", "m", " ", "s", "o", "l", "a", "n", "a", " ", "a", "n", "d", " ", "s",
             "w", "a", "p", " ", "t", "o", " ", "V", "X", "S">>,
           <<"b", "r", "i", "d", "g", "e", " ", "1", "0", " ", "s", "o", "l", " ", "f", "r",
             "o", "m", " ", "s", "o", "l", "a", "n", "a", " ", "a", "n", "d", " ", "w", "a",
             "i", "t">>,
           <<"r", "e", "g", "i", "s", "t", "e", "r", " ", "b", "r", "i", "d", "g", "e", " ",
             "3", " ", "b", "t", "c", " ", "f", "r", "o", "m", " ", "b", "t", "c">>,
           <<"r", "e", "g", "i", "s", "t", "e", "r", " ", "c", "h", "r", "i", "s", ".", "v",
             "e", "x">>,
           <<"r", "e", "g", "i", "s", "t", "e", "r", " ", "m", "y", "-", "c", "o", "o", "l",
             "-", "n", "a", "m", "e">>,
           <<"r", "e", "g", "i", "s", "t", "e", "r", " ", "a", "b">>,
           <<"r", "e", "g", "i", "s", "t", "e", "r", " ", "-", "b", "a", "d", "-">>,
           <<"s", "t", "a", "k", "e", " ", "5", " ", "m", "o", "o", "n", " ", "r", "e", "g",
             "i", "s", "t", "e", "r", " ", "b", "o", "b">>,
           <<"d", "o", " ", "s", "o", "m", "e", "t", "h", "i", "n", "g", " ", "c", "o", "m",
             "p", "l", "e", "x">>,
           <<"D", "o", " ", " ", "S", "o", "m", "e", "t", "h", "i", "n", "g", "\t", "C", "O",
             "M", "P", "L", "E", "X">>,
           <<>>}}

ParseIntent ==
    /\ parsed = None
    /\ parsed' = Some(parse_intent(parse_in))
    /\ UNCHANGED <<builder, bundle, result, parse_in>>

SpecParse == InitParse /\ [][ParseIntent]_vars

ParserOrder == <<"swap", "liquidity", "stake", "bridge", "bridge_and_action", "register">>

Tried(text) == [k \in 1..6 |-> try_parse(ParserOrder[k], text)]

FirstOrCustom(out, text, tried) ==
    /\ out.ok
    /\ \A k \in 1..6 :
          (tried[k] # None /\ \A j \in 1..(k - 1) : tried[j] = None) => out.val = tried[k]
    /\ (\A k \in 1..6 : tried[k] = None) =>
          /\ out.val[1].goal.kind = "Custom"
          /\ out.val[1].goal.s = <<text>>
          /\ out.val[1].constraints = Constraints_default

=============================================================================
